---------------------------- MODULE Spec2Model ----------------------------
(***************************************************************************)
(* find_dups: the layered record store (Archive, Record), the FileStore    *)
(* built on it and the directory broker.                                   *)
(*                                                                         *)
(* Sizes are scaled: the record limit, the archive limit and the worst     *)
(* case compressed block keep the order they have in src/src/lib.rs        *)
(*   RECORD_SIZE + 4 + compression overhead < MAX_COMPRESSED_CHUNK_SIZE    *)
(*   MAX_COMPRESSED_CHUNK_SIZE < ARCHIVE_SIZE - MAX_COMPRESSED_CHUNK_SIZE  *)
(* so that a segment holds a few blocks and a block a few items.           *)
(*                                                                         *)
(* Specifications: SpecArchive (write tasks and finish), SpecRecord        *)
(* (push, finish, pull, seek), SpecWriter (the pushes and the finish of    *)
(* the Record's owner alone), SpecStore (two runs on one directory),       *)
(* SpecQuery (a run on an archive written completely), SpecLoad (the load  *)
(* of a stream that may end after an Entry), SpecScan (two process_dir     *)
(* tasks calling add_file at once), SpecBroker                             *)
(* (launch_brokers, broker, scanners, timer) and SpecBrokerLive (the same  *)
(* without I/O errors, under fair scheduling).                             *)
(***************************************************************************)
EXTENDS Integers, Sequences, FiniteSets, TLC

\* src/src/lib.rs:26-29 (scaled, see above)
RECORD_SIZE == 12
MAX_COMPRESSED_CHUNK_SIZE == 24
ARCHIVE_SIZE == 56
\* src/src/archive.rs:207  while active_tasks.load() >= 4
MAX_ACTIVE_TASKS == 4

\* bounds of the model
MaxTasks == 5

VARIABLES
    \* Archive (src/src/archive.rs:28-39)
    limit, arc_write_buffer, write_serial_number, active_tasks, waiting_tasks,
    arc_read_buffer, read_serial_number, read_offset,
    \* the spawned write_file tasks and the segment files on disk
    tasks, disk,
    \* the thread that owns the Archive: its position, the pair it loaded in
    \* task_counts, and whether finish has returned since the last flush
    pc, tc_caller, tc_w, reported, finished,
    \* Record (src/src/record.rs:98-105)
    rec_write_buffer, rec_read_buffer,
    \* the client of the Record: the items it pushed, the RecordLocations push
    \* returned, what each pull returned, and the location sought last
    pushed, locs, pulled, sought,
    \* FileStore (src/src/file.rs:73-79): index, hindex, present, config; the
    \* lines the last add_file printed; where the run that owns the store is;
    \* the add_file calls of the run; the FileIndex handed to the last write
    index, hindex, present, config, out, phase, adds, saved,
    \* the counts of the summary line the last report printed; the FileIndex of
    \* the second FileStore handed to find_dups_second_archive
    summary, second,
    \* the run of launch_brokers (src/src/lib.rs:89-111): the root paths and how
    \* many of them the driver has sent; the locals of dir_broker_loop
    \* (src/src/dir.rs:33-55); the channel, its queue and its parked senders; the
    \* process_dir tasks; the clock, in periods of the timer; file_store.index().len()
    roots, seeded, broker, chan, parked, scanners, now, nfiles,
    \* the time at which nfiles, file_count or dir_count advanced last
    advanced

arcWVars == <<limit, arc_write_buffer, write_serial_number>>
arcRVars == <<arc_read_buffer, read_serial_number, read_offset>>
archVars == <<arcWVars, active_tasks, waiting_tasks, arcRVars>>
taskVars == <<tasks, disk>>
ownerVars == <<pc, tc_caller, tc_w, reported, finished>>
recVars == <<rec_write_buffer, rec_read_buffer>>
clientVars == <<pushed, locs, pulled, sought>>
\* what the Archive's tasks and its polling never touch
storeVars == <<index, hindex, present, config, out, phase, adds, saved,
              summary, second>>
brokerVars == <<roots, seeded, broker, chan, parked, scanners, now, nfiles,
               advanced>>
restVars == <<recVars, clientVars, storeVars, brokerVars>>
vars == <<archVars, taskVars, ownerVars, restVars>>

---------------------------------------------------------------------------
\* Option<Vec<u8>>
None == [some |-> FALSE, v |-> <<>>]
Some(x) == [some |-> TRUE, v |-> x]

Bytes(n, b) == [i \in 1..n |-> b]

\* let y = x; F(y): x is evaluated once, F on its value
Bind(x, F(_)) == CHOOSE r \in {F(y) : y \in {x}} : TRUE

---------------------------------------------------------------------------
\* Archive, write side.  a = [limit, write_buffer, write_serial_number, spawned,
\* panic, written]
\* spawned: the (name, buffer) pairs handed to spawn_and_log_error(write_file(..)),
\* each after one waiting_tasks.fetch_add(1).
\* written: the write calls, each with the location write_location() gives
\* immediately before it, and the segment serial and the offset in the buffer at
\* which extend_from_slice put its bytes v.

\* a flush that hands its buffer to a write task even when it is empty
Archive_flush_always(a) ==
    [a EXCEPT !.spawned = Append(@, [name |-> a.write_serial_number,
                                      v |-> a.write_buffer]),
              !.write_serial_number = @ + 1,
              !.write_buffer = <<>>]

Archive_flush(a) ==
    IF Len(a.write_buffer) > 0
    THEN [a EXCEPT !.spawned = Append(@, [name |-> a.write_serial_number,
                                           v |-> a.write_buffer]),
                   !.write_serial_number = @ + 1,
                   !.write_buffer = <<>>]
    ELSE a

\* a write_location that never announces a rollover
Archive_write_location_here(a) ==
    [archive_set |-> a.write_serial_number, set_offset |-> Len(a.write_buffer)]

Archive_write_location(a) ==
    IF Len(a.write_buffer) + MAX_COMPRESSED_CHUNK_SIZE > a.limit
    THEN [archive_set |-> a.write_serial_number + 1, set_offset |-> 0]
    ELSE [archive_set |-> a.write_serial_number, set_offset |-> Len(a.write_buffer)]

\* Archive::write rolling over only when v itself does not fit
Archive_write_fit(a, v) ==
    IF ~(Len(v) < MAX_COMPRESSED_CHUNK_SIZE)
    THEN [a EXCEPT !.panic = TRUE]
    ELSE LET a1 == IF Len(a.write_buffer) + Len(v) > a.limit
                   THEN Archive_flush(a) ELSE a
         IN [a1 EXCEPT !.write_buffer = @ \o v,
                       !.written = Append(@,
                           [predicted |-> Archive_write_location(a),
                            archive_set |-> a1.write_serial_number,
                            set_offset |-> Len(a1.write_buffer),
                            v |-> v])]

Archive_write(a, v) ==
    IF ~(Len(v) < MAX_COMPRESSED_CHUNK_SIZE)
    THEN [a EXCEPT !.panic = TRUE]
    ELSE LET a1 == IF Len(a.write_buffer) + MAX_COMPRESSED_CHUNK_SIZE > a.limit
                   THEN Archive_flush(a) ELSE a
         IN [a1 EXCEPT !.write_buffer = @ \o v,
                       !.written = Append(@,
                           [predicted |-> Archive_write_location(a),
                            archive_set |-> a1.write_serial_number,
                            set_offset |-> Len(a1.write_buffer),
                            v |-> v])]

\* the Archive of the state, and the state after an operation on it
TheArchive ==
    [limit |-> limit, write_buffer |-> arc_write_buffer,
     write_serial_number |-> write_serial_number, spawned |-> <<>>, panic |-> FALSE,
     written |-> <<>>]

NewTask(s) == [pc |-> "check", name |-> s.name, v |-> s.v]

SetArchive(a) ==
    /\ limit' = a.limit
    /\ arc_write_buffer' = a.write_buffer
    /\ write_serial_number' = a.write_serial_number
    /\ waiting_tasks' = waiting_tasks + Len(a.spawned)
    /\ tasks' = tasks \o [i \in 1..Len(a.spawned) |-> NewTask(a.spawned[i])]

---------------------------------------------------------------------------
\* write_file (src/src/archive.rs:199-218), one action per atomic step

TaskAt(t, p) == t \in 1..Len(tasks) /\ tasks[t].pc = p
TaskTo(t, p) == tasks' = [tasks EXCEPT ![t].pc = p]

\* while active_tasks.load() >= 4 { sleep }
TaskCheck(t) ==
    /\ TaskAt(t, "check")
    /\ IF active_tasks >= MAX_ACTIVE_TASKS THEN UNCHANGED tasks ELSE TaskTo(t, "sub")
    /\ UNCHANGED <<archVars, disk, ownerVars, restVars>>

\* waiting_tasks.fetch_sub(1)
TaskSub(t) ==
    /\ TaskAt(t, "sub")
    /\ waiting_tasks' = waiting_tasks - 1
    /\ TaskTo(t, "add")
    /\ UNCHANGED <<arcWVars, active_tasks, arcRVars, disk, ownerVars, restVars>>

\* active_tasks.fetch_add(1)
TaskAdd(t) ==
    /\ TaskAt(t, "add")
    /\ active_tasks' = active_tasks + 1
    /\ TaskTo(t, "write")
    /\ UNCHANGED <<arcWVars, waiting_tasks, arcRVars, disk, ownerVars, restVars>>

\* let mut f = File::create(name).await?; f.write_all(&v).await?; drop(f)
\* succeeding: the segment file holds the buffer
TaskWriteFile(t) ==
    /\ TaskAt(t, "write")
    /\ disk' = [n \in DOMAIN disk \cup {tasks[t].name} |->
                    IF n = tasks[t].name THEN Some(tasks[t].v) ELSE disk[n]]
    /\ TaskTo(t, "close")
    /\ UNCHANGED <<archVars, ownerVars, restVars>>

\* active_tasks.fetch_sub(1); Ok(())
TaskClose(t) ==
    /\ TaskAt(t, "close")
    /\ active_tasks' = active_tasks - 1
    /\ TaskTo(t, "done")
    /\ UNCHANGED <<arcWVars, waiting_tasks, arcRVars, disk, ownerVars, restVars>>

\* File::create or write_all failing: `?` returns the error to
\* spawn_and_log_error, which prints it
TaskIoError(t) ==
    /\ TaskAt(t, "write")
    /\ TaskTo(t, "failed")
    /\ UNCHANGED <<archVars, disk, ownerVars, restVars>>

TaskStep(t) ==
    \/ TaskCheck(t) \/ TaskSub(t) \/ TaskAdd(t)
    \/ TaskWriteFile(t) \/ TaskClose(t)

Ended(t) == tasks[t].pc \in {"done", "failed"}

---------------------------------------------------------------------------
\* Archive::task_counts (src/src/archive.rs:76-81), two loads, and
\* Archive::finish (src/src/archive.rs:152-159), which polls it

NoReport == [valid |-> FALSE, a |-> 0, total |-> 0]

\* let w = self.waiting_tasks.load(..)
LoadWaiting ==
    /\ pc = "tc_w"
    /\ tc_w' = waiting_tasks
    /\ pc' = "tc_a"
    /\ UNCHANGED <<archVars, taskVars, tc_caller, reported, finished, restVars>>

\* let a = self.active_tasks.load(..); (a, a + w)
LoadActive ==
    /\ pc = "tc_a"
    /\ reported' = [valid |-> TRUE, a |-> active_tasks, total |-> active_tasks + tc_w]
    /\ pc' = "tc_ret"
    /\ UNCHANGED <<archVars, taskVars, tc_caller, tc_w, finished, restVars>>

\* while self.task_counts().1 > 0 { sleep(200ms) }  Ok(())
FinishPoll ==
    /\ pc = "tc_ret" /\ tc_caller = "finish"
    /\ IF reported.total > 0
       THEN pc' = "tc_w" /\ UNCHANGED finished
       ELSE pc' = "after" /\ finished' = TRUE
    /\ reported' = NoReport
    /\ UNCHANGED <<archVars, taskVars, tc_caller, tc_w, restVars>>

\* a task_counts() call of the owner itself returns
TaskCountsReturn ==
    /\ pc = "tc_ret" /\ tc_caller = "user"
    /\ pc' = "after"
    /\ reported' = NoReport
    /\ UNCHANGED <<archVars, taskVars, tc_caller, tc_w, finished, restVars>>

\* the owner asks for the counts once finish has returned
TaskCountsCall ==
    /\ pc = "after"
    /\ pc' = "tc_w" /\ tc_caller' = "user"
    /\ UNCHANGED <<archVars, taskVars, tc_w, reported, finished, restVars>>

---------------------------------------------------------------------------
\* The Archive driven through its own interface

ArchiveIn == {Bytes(17, 7)}

ArchiveWriteCall(v) ==
    /\ pc = "idle"
    /\ Len(tasks) + Len(Archive_write(TheArchive, v).spawned) <= MaxTasks
    /\ SetArchive(Archive_write(TheArchive, v))
    /\ finished' = (finished /\ Archive_write(TheArchive, v).spawned = <<>>)
    /\ UNCHANGED <<active_tasks, arcRVars, disk, pc, tc_caller, tc_w, reported, restVars>>

ArchiveFinishCall ==
    /\ pc = "idle"
    /\ Len(tasks) + Len(Archive_flush(TheArchive).spawned) <= MaxTasks
    /\ SetArchive(Archive_flush(TheArchive))
    /\ finished' = FALSE
    /\ pc' = "tc_w" /\ tc_caller' = "finish"
    /\ UNCHANGED <<active_tasks, arcRVars, disk, tc_w, reported, restVars>>

\* no segment file exists
NoFile == [n \in {} |-> None]

\* ReadBuf::new (src/src/record.rs:15-17)
ReadBuf_new == [data |-> None, pos |-> 0]

InitIdleRecord ==
    /\ rec_write_buffer = <<>> /\ rec_read_buffer = ReadBuf_new
    /\ pushed = <<>> /\ locs = <<>> /\ pulled = <<>> /\ sought = 0

\* DashMap::new
EmptyMap == [k \in {} |-> 0]

\* no FileStore is opened
InitIdleIndex ==
    /\ index = EmptyMap /\ hindex = EmptyMap /\ present = {}
    /\ out = <<>> /\ phase = "idle" /\ adds = 0 /\ saved = None
    /\ summary = None /\ second = EmptyMap

InitIdleStore ==
    /\ InitIdleIndex
    /\ config = [injest |-> FALSE, list |-> FALSE, report |-> FALSE,
                 missing |-> FALSE, present |-> FALSE,
                 duplicate |-> FALSE, prune |-> FALSE, concurrency |-> 1,
                 timeout |-> 1]

\* the locals of dir_broker_loop before the loop (src/src/dir.rs:33-55); pc is
\* "new" until launch_brokers spawns the task, "exit" once it has returned
Broker_new ==
    [pc |-> "new", exit |-> "", todo |-> <<>>, active_count |-> 0,
     error_count |-> 0, dir_count |-> 0, file_count |-> 0, initial_files |-> 0,
     last_change_event |-> 0, last_file_count |-> 0, last_nfiles |-> 0,
     last_dir_count |-> 0, writes |-> 0]

\* launch_brokers is not running
InitIdleBroker ==
    /\ roots = <<>> /\ seeded = 0 /\ broker = Broker_new
    /\ chan = <<>> /\ parked = <<>> /\ scanners = <<>> /\ now = 0 /\ nfiles = 0
    /\ advanced = 0

\* Archive::new(archive, record_type, l) (src/src/archive.rs:61-74)
InitArchiveWith(l) ==
    /\ limit = l
    /\ arc_write_buffer = <<>> /\ write_serial_number = 0
    /\ active_tasks = 0 /\ waiting_tasks = 0
    /\ arc_read_buffer = None /\ read_serial_number = 0 /\ read_offset = 0
    /\ tasks = <<>> /\ disk = NoFile
    /\ pc = "idle" /\ tc_caller = "user" /\ tc_w = 0
    /\ reported = NoReport /\ finished = FALSE

InitArchiveVars == InitArchiveWith(ARCHIVE_SIZE)

InitArchive ==
    /\ InitArchiveVars
    /\ InitIdleRecord
    /\ InitIdleStore
    /\ InitIdleBroker

NextArchive ==
    \/ \E v \in ArchiveIn : ArchiveWriteCall(v)
    \/ ArchiveFinishCall
    \/ TaskCountsCall
    \/ LoadWaiting
    \/ LoadActive
    \/ FinishPoll
    \/ TaskCountsReturn
    \/ \E t \in 1..MaxTasks : TaskStep(t)
    \/ \E t \in 1..MaxTasks : TaskIoError(t)

SpecArchive == InitArchive /\ [][NextArchive]_vars

---------------------------------------------------------------------------
\* Record (src/src/record.rs)

\* usize_to_slice_u8 / slice_u8_to_usize: 4 bytes, little endian
usize_to_slice_u8(len) ==
    << len % 256, (len \div 256) % 256, (len \div 65536) % 256,
       (len \div 16777216) % 256 >>

\* (a length of 2^24 or more is beyond every buffer of the model, whatever its
\* top byte: the top byte counts once)
slice_u8_to_usize(b) ==
    b[1] + b[2] * 256 + b[3] * 65536 + (IF b[4] > 0 THEN 16777216 ELSE 0)

\* lz4::block::compress(buf, None, true): the uncompressed size (4 bytes, little
\* endian), then an LZ4 block.  The block is the one LZ4 emits for an input with
\* no match, which every input under 13 bytes is: a token whose high nibble is
\* the literal count (15 and one more byte from 15 literals on), the literals.
compress(buf) ==
    usize_to_slice_u8(Len(buf))
        \o (IF Len(buf) < 15 THEN << 16 * Len(buf) >> ELSE << 240, Len(buf) - 15 >>)
        \o buf

\* lz4::block::decompress(cbuf, None): [ok, v]
decompress(c) ==
    IF Len(c) < 5 THEN [ok |-> FALSE, v |-> <<>>]
    ELSE LET size == slice_u8_to_usize(c)
             lit == c[5] \div 16
             ext == lit = 15
             n == IF ext /\ Len(c) >= 6 THEN 15 + c[6] ELSE lit
             from == IF ext THEN 7 ELSE 6
         IN IF (ext /\ Len(c) < 6) \/ c[5] % 16 # 0 \/ n # size
               \/ Len(c) # from - 1 + n
            THEN [ok |-> FALSE, v |-> <<>>]
            ELSE [ok |-> TRUE, v |-> SubSeq(c, from, Len(c))]

\* The writing half of a Record: r = [write_buffer, archive, panic, flushed]
\* flushed: the uncompressed buffers handed to compress, in order.

Record_flush(r) ==
    IF Len(r.write_buffer) > 0
    THEN LET compressed == compress(r.write_buffer)
             a1 == Archive_write(r.archive, usize_to_slice_u8(Len(compressed)))
             a2 == Archive_write(a1, compressed)
         IN [r EXCEPT !.archive = a2, !.write_buffer = <<>>,
                      !.panic = @ \/ a2.panic,
                      !.flushed = Append(@, r.write_buffer)]
    ELSE r

\* the split loop of push (src/src/record.rs:165-173)
RECURSIVE Record_push_rest(_, _, _)
Record_push_rest(r, v, vpos) ==
    IF r.panic THEN r
    ELSE IF Len(v) - vpos > RECORD_SIZE
    THEN \* let space = self.limit - self.write_buffer.len(): unsigned, a negative
         \* difference aborts (overflow check, or the slice v[vpos..vpos + space])
         LET space == RECORD_SIZE - Len(r.write_buffer)
         IN IF space < 0 THEN [r EXCEPT !.panic = TRUE]
            ELSE Record_push_rest(
                     Record_flush([r EXCEPT !.write_buffer =
                                      @ \o SubSeq(v, vpos + 1, vpos + space)]),
                     v, vpos + space)
    ELSE [r EXCEPT !.write_buffer = @ \o SubSeq(v, vpos + 1, Len(v))]

\* a push that takes its RecordLocation before it flushes the full buffer
Record_push_early(r, v) ==
    LET r1 == IF Len(v) <= RECORD_SIZE /\ Len(r.write_buffer) + Len(v) > RECORD_SIZE
              THEN Record_flush(r) ELSE r
        ret == [archive_location |-> Archive_write_location(r.archive),
                uncompressed_offset |-> Len(r.write_buffer)]
        r2 == [r1 EXCEPT !.write_buffer = @ \o usize_to_slice_u8(Len(v))]
    IN [r |-> Record_push_rest(r2, v, 0), ret |-> ret]

\* Record::push: [r, ret]
Record_push(r, v) ==
    LET r1 == IF Len(v) <= RECORD_SIZE /\ Len(r.write_buffer) + Len(v) > RECORD_SIZE
              THEN Record_flush(r) ELSE r
        ret == [archive_location |-> Archive_write_location(r1.archive),
                uncompressed_offset |-> Len(r1.write_buffer)]
        r2 == [r1 EXCEPT !.write_buffer = @ \o usize_to_slice_u8(Len(v))]
    IN [r |-> Record_push_rest(r2, v, 0), ret |-> ret]

\* Record::finish up to its await: flush the Record, then the Archive
Record_finish(r) ==
    LET r1 == Record_flush(r) IN [r1 EXCEPT !.archive = Archive_flush(r1.archive)]

\* ReadBuf (src/src/record.rs:9-75); get_slice: [buf, ret, panic]
ReadBuf_len_left(rb) == IF rb.data.some THEN Len(rb.data.v) - rb.pos ELSE 0

ReadBuf_get_slice(rb, len) ==
    IF ~rb.data.some \/ len > Len(rb.data.v) - rb.pos
    THEN [buf |-> rb, ret |-> <<>>, panic |-> TRUE]
    ELSE [buf |-> IF len = Len(rb.data.v) - rb.pos THEN ReadBuf_new
                  ELSE [rb EXCEPT !.pos = @ + len],
          ret |-> SubSeq(rb.data.v, rb.pos + 1, rb.pos + len),
          panic |-> FALSE]

\* read_file (src/src/archive.rs:221-229)
read_file(dsk, n) == IF n \in DOMAIN dsk THEN dsk[n] ELSE None

\* Archive::read: ar = [read_buffer, read_serial_number, read_offset]; [ar, ret]
Archive_read(ar, dsk, len) ==
    LET reload == ~ar.read_buffer.some
                    \/ Len(ar.read_buffer.v) < ar.read_offset + len
        serial == IF ar.read_buffer.some THEN ar.read_serial_number + 1
                  ELSE ar.read_serial_number
        ar1 == IF reload
               THEN [read_buffer |-> read_file(dsk, serial),
                     read_serial_number |-> serial, read_offset |-> 0]
               ELSE ar
    IN IF ar1.read_buffer.some
       THEN [ar |-> [ar1 EXCEPT !.read_offset = @ + len],
             ret |-> IF ar1.read_offset + len > Len(ar1.read_buffer.v) THEN None
                     ELSE Some(SubSeq(ar1.read_buffer.v, ar1.read_offset + 1,
                                      ar1.read_offset + len))]
       ELSE [ar |-> ar1, ret |-> None]

\* Archive::seek
Archive_seek(ar, location) ==
    [read_buffer |-> None, read_serial_number |-> location.archive_set,
     read_offset |-> location.set_offset]

\* The reading half of a Record: rd = [read_buffer, archive].
\* Record::read_next_record: [rd, err]
Record_read_next_record(rd, dsk) ==
    LET x == Archive_read(rd.archive, dsk, 4)
    IN IF x.ret.some
       THEN LET y == Archive_read(x.ar, dsk, slice_u8_to_usize(x.ret.v))
                ucbuf == decompress(y.ret.v)
            IN IF y.ret.some /\ ucbuf.ok
               THEN [rd |-> [archive |-> y.ar,
                             read_buffer |->
                                 IF ~rd.read_buffer.data.some
                                 THEN [data |-> Some(ucbuf.v), pos |-> 0]
                                 ELSE [rd.read_buffer EXCEPT !.data.v = @ \o ucbuf.v]],
                     err |-> FALSE]
               ELSE [rd |-> [rd EXCEPT !.archive = y.ar], err |-> TRUE]
       ELSE [rd |-> [rd EXCEPT !.archive = x.ar], err |-> FALSE]

\* the loop of pull (src/src/record.rs:213-217): [rd, kind, v] with kind
\* "some" (Ok(Some(v))), "err" (Err), "panic", or "spin": read_next_record
\* returned Ok and left the reader as it was, so the loop repeats for ever
\* unless a segment file appears
RECURSIVE Record_pull_rest(_, _, _)
Record_pull_rest(rd, dsk, bytes_to_get) ==
    IF bytes_to_get > ReadBuf_len_left(rd.read_buffer)
    THEN LET n == Record_read_next_record(rd, dsk)
         IN IF n.err THEN [rd |-> n.rd, kind |-> "err", v |-> <<>>]
            ELSE IF n.rd = rd THEN [rd |-> rd, kind |-> "spin", v |-> <<>>]
            ELSE Record_pull_rest(n.rd, dsk, bytes_to_get)
    ELSE LET g == ReadBuf_get_slice(rd.read_buffer, bytes_to_get)
         IN [rd |-> [rd EXCEPT !.read_buffer = g.buf],
             kind |-> IF g.panic THEN "panic" ELSE "some", v |-> g.ret]

\* Record::pull; kind "none" is Ok(None)
Record_pull(rd, dsk) ==
    LET n == IF ~rd.read_buffer.data.some THEN Record_read_next_record(rd, dsk)
             ELSE [rd |-> rd, err |-> FALSE]
    IN IF n.err THEN [rd |-> n.rd, kind |-> "err", v |-> <<>>]
       ELSE IF ~n.rd.read_buffer.data.some
       THEN [rd |-> n.rd, kind |-> "none", v |-> <<>>]
       ELSE LET g == ReadBuf_get_slice(n.rd.read_buffer, 4)
            IN IF g.panic THEN [rd |-> n.rd, kind |-> "panic", v |-> <<>>]
               ELSE Record_pull_rest([n.rd EXCEPT !.read_buffer = g.buf], dsk,
                                     slice_u8_to_usize(g.ret))

\* the Record of the state
TheRecord ==
    [write_buffer |-> rec_write_buffer, archive |-> TheArchive, panic |-> FALSE,
     flushed |-> <<>>]

TheReader ==
    [read_buffer |-> rec_read_buffer,
     archive |-> [read_buffer |-> arc_read_buffer,
                  read_serial_number |-> read_serial_number,
                  read_offset |-> read_offset]]

SetRecord(r) ==
    /\ rec_write_buffer' = r.write_buffer
    /\ SetArchive(r.archive)

SetReader(rd) ==
    /\ rec_read_buffer' = rd.read_buffer
    /\ arc_read_buffer' = rd.archive.read_buffer
    /\ read_serial_number' = rd.archive.read_serial_number
    /\ read_offset' = rd.archive.read_offset

---------------------------------------------------------------------------
\* A Record driven through its own interface: pushes, finish, then a reader
\* (Record::new on the same archive) that pulls and seeks

MaxPushes == 3
MaxPushBytes == 44
ItemLens == {0, 1, 9, 13, 3 * RECORD_SIZE + 7}

\* the k-th item pushed, of n bytes: bytes no other item or prefix holds
Item(k, n) == [j \in 1..n |-> 50 * k + j]

RECURSIVE SumLen(_)
SumLen(items) == IF items = <<>> THEN 0 ELSE Len(Head(items)) + SumLen(Tail(items))

Push(n) ==
    /\ pc = "idle"
    /\ Len(pushed) < MaxPushes
    /\ SumLen(pushed) + n <= MaxPushBytes
    /\ LET v == Item(Len(pushed) + 1, n)
           p == Record_push(TheRecord, v)
       IN IF p.r.panic
          THEN /\ pc' = "panic"
               /\ UNCHANGED <<arcWVars, waiting_tasks, tasks, recVars, pushed, locs>>
          ELSE /\ SetRecord(p.r)
               /\ pushed' = Append(pushed, v)
               /\ locs' = Append(locs, p.ret)
               /\ UNCHANGED <<pc, rec_read_buffer>>
    /\ UNCHANGED <<active_tasks, arcRVars, disk, tc_caller, tc_w, reported, finished,
                   pulled, sought, storeVars, brokerVars>>

Finish ==
    /\ pc = "idle"
    /\ SetRecord(Record_finish(TheRecord))
    /\ pc' = "tc_w" /\ tc_caller' = "finish"
    /\ UNCHANGED <<active_tasks, arcRVars, disk, tc_w, reported, finished,
                   rec_read_buffer, clientVars, storeVars, brokerVars>>

\* pull of the reader.  A pull whose loop spins returns only once a segment file
\* has appeared: it is taken when it returns, or when no task is left to write
Pull ==
    /\ pc = "after"
    /\ Len(pulled) <= Len(pushed)
    /\ LET x == Record_pull(TheReader, disk)
       IN /\ x.kind = "spin" => \A t \in 1..Len(tasks) : Ended(t)
          /\ SetReader(x.rd)
          /\ pulled' = Append(pulled, [kind |-> x.kind, v |-> x.v, sought |-> sought])
          /\ pc' = IF x.kind \in {"panic", "spin"} THEN x.kind ELSE pc
    /\ sought' = 0
    /\ UNCHANGED <<arcWVars, active_tasks, waiting_tasks, taskVars, tc_caller, tc_w,
                   reported, finished, rec_write_buffer, pushed, locs, storeVars, brokerVars>>

\* seek to the location push returned for the i-th item
Seek(i) ==
    /\ pc = "after"
    /\ sought = 0
    /\ Len(pulled) <= Len(pushed)
    /\ \A j \in 1..Len(pulled) : pulled[j].sought = 0
    /\ i \in 1..Len(locs)
    /\ SetReader([TheReader EXCEPT
                     !.archive = Archive_seek(@, locs[i].archive_location)])
    /\ sought' = i
    /\ UNCHANGED <<arcWVars, active_tasks, waiting_tasks, taskVars, ownerVars,
                   rec_write_buffer, pushed, locs, pulled, storeVars, brokerVars>>

\* The file_limit handed to Record::new (src/src/record.rs:123): ARCHIVE_SIZE, as
\* FileStore::new hands it, and a limit at which the few block sizes of the model
\* add up to the last 4 bytes below limit - MAX_COMPRESSED_CHUNK_SIZE, which
\* blocks of real sizes reach under ARCHIVE_SIZE itself
FileLimits == {ARCHIVE_SIZE, ARCHIVE_SIZE + 4}

InitRecord ==
    /\ \E l \in FileLimits : InitArchiveWith(l)
    /\ InitIdleRecord
    /\ InitIdleStore
    /\ InitIdleBroker

NextRecord ==
    \/ \E n \in ItemLens : Push(n)
    \/ Finish
    \/ LoadWaiting
    \/ LoadActive
    \/ FinishPoll
    \/ Pull
    \/ \E i \in 1..MaxPushes : Seek(i)
    \/ \E t \in 1..Len(tasks) : TaskStep(t)

SpecRecord == InitRecord /\ [][NextRecord]_vars

\* The calls of the thread that owns the Record, up to the await of finish: what
\* it appends to the segment buffers and hands to the write tasks
NextWriter ==
    \/ \E n \in ItemLens : Push(n)
    \/ Finish

SpecWriter == InitRecord /\ [][NextWriter]_vars

---------------------------------------------------------------------------
\* FileStore (src/src/file.rs).  Entries and fingerprints are stored as CBOR
\* (minicbor): an Entry is an array of its 9 fields, a fingerprint an unsigned
\* integer.  Field values are small, so that an encoded Entry fits a record.

CHUNK_SIZE == 2

\* unsigned integer, major type 0
cbor_uint(n) ==
    IF n < 24 THEN <<n>>
    ELSE IF n < 256 THEN <<24, n>>
    ELSE <<25, n \div 256, n % 256>>

cbor_bool(b) == IF b THEN <<245>> ELSE <<244>>

\* text string, major type 3
cbor_str(t) == <<96 + Len(t)>> \o t

\* decoders: [ok, v, next], next the position after the value read at p
cbor_fail(p) == [ok |-> FALSE, v |-> 0, next |-> p]

cbor_uint_at(b, p) ==
    IF p > Len(b) THEN cbor_fail(p)
    ELSE IF b[p] < 24 THEN [ok |-> TRUE, v |-> b[p], next |-> p + 1]
    ELSE IF b[p] = 24 /\ p + 1 <= Len(b)
         THEN [ok |-> TRUE, v |-> b[p + 1], next |-> p + 2]
    ELSE IF b[p] = 25 /\ p + 2 <= Len(b)
         THEN [ok |-> TRUE, v |-> 256 * b[p + 1] + b[p + 2], next |-> p + 3]
    ELSE cbor_fail(p)

cbor_bool_at(b, p) ==
    IF p <= Len(b) /\ b[p] \in {244, 245}
    THEN [ok |-> TRUE, v |-> b[p] = 245, next |-> p + 1]
    ELSE cbor_fail(p)

cbor_str_at(b, p) ==
    IF p <= Len(b) /\ b[p] >= 96 /\ b[p] < 120 /\ p + (b[p] - 96) <= Len(b)
    THEN [ok |-> TRUE, v |-> SubSeq(b, p + 1, p + (b[p] - 96)),
          next |-> p + 1 + (b[p] - 96)]
    ELSE cbor_fail(p)

\* minicbor::to_vec(&Entry)
Entry_encode(e) ==
    <<137>> \o cbor_uint(e.perm) \o cbor_uint(e.uid) \o cbor_uint(e.gid)
            \o cbor_uint(e.mod_secs) \o cbor_uint(e.mod_nanos)
            \o cbor_bool(e.is_file) \o cbor_bool(e.is_dir)
            \o cbor_uint(e.len) \o cbor_str(e.name)

\* the fields of an array read one after the other from position p, each by
\* the decoder of its type: [ok, v], v the values read
RECURSIVE cbor_fields_at(_, _, _, _)
cbor_fields_at(b, p, types, acc) ==
    IF types = <<>> THEN [ok |-> TRUE, v |-> acc]
    ELSE Bind(IF Head(types) = "uint" THEN cbor_uint_at(b, p)
              ELSE IF Head(types) = "bool" THEN cbor_bool_at(b, p)
              ELSE cbor_str_at(b, p),
              LAMBDA x : IF ~x.ok THEN [ok |-> FALSE, v |-> acc]
                         ELSE cbor_fields_at(b, x.next, Tail(types),
                                             Append(acc, x.v)))

\* minicbor::decode::<Entry>: [ok, v]
Entry_decode(b) ==
    IF Len(b) = 0 \/ b[1] # 137 THEN [ok |-> FALSE, v |-> <<>>]
    ELSE Bind(cbor_fields_at(b, 2, <<"uint", "uint", "uint", "uint", "uint",
                                     "bool", "bool", "uint", "str">>, <<>>),
              LAMBDA d : IF ~d.ok THEN [ok |-> FALSE, v |-> <<>>]
                         ELSE [ok |-> TRUE,
                               v |-> [perm |-> d.v[1], uid |-> d.v[2],
                                      gid |-> d.v[3], mod_secs |-> d.v[4],
                                      mod_nanos |-> d.v[5], is_file |-> d.v[6],
                                      is_dir |-> d.v[7], len |-> d.v[8],
                                      name |-> d.v[9]]])

\* minicbor::decode::<u64>: [ok, v]
ChunkHash_decode(b) ==
    LET d == cbor_uint_at(b, 1) IN [ok |-> d.ok, v |-> d.v]

\* the files of the walked tree, as process_dir hands them to add_file: path,
\* content and modification time.  FileB has the content of FileA; FileA2 is
\* FileA after a change (same path, new content and time); FileC is an empty
\* file with a longer path, whose Entry is longer than a record block
FileA == [path |-> <<97>>, content |-> <<1>>, mod_secs |-> 0, is_file |-> TRUE]
FileB == [path |-> <<98>>, content |-> <<1>>, mod_secs |-> 0, is_file |-> TRUE]
FileA2 == [path |-> <<97>>, content |-> <<1, 2, 3>>, mod_secs |-> 1, is_file |-> TRUE]
FileC == [path |-> <<99, 99, 99>>, content |-> <<>>, mod_secs |-> 0, is_file |-> TRUE]
Files == {FileA, FileB, FileA2, FileC}

\* Entry::new_from_path_meta
Entry_new_from_path_meta(f) ==
    [perm |-> 0, uid |-> 0, gid |-> 0, mod_secs |-> f.mod_secs, mod_nanos |-> 0,
     is_file |-> f.is_file, is_dir |-> FALSE, len |-> Len(f.content),
     name |-> f.path]

\* seahash::hash, a fixed function of the bytes hashed (values below 32)
RECURSIVE seahash_from(_, _)
seahash_from(buf, i) ==
    IF i > Len(buf) THEN 24 ELSE (buf[i] * (2 * i + 1) + seahash_from(buf, i + 1)) % 32

seahash(buf) == seahash_from(buf, 1)

RECURSIVE Xor(_, _)
Xor(a, b) ==
    IF a = 0 THEN b ELSE IF b = 0 THEN a
    ELSE ((a + b) % 2) + 2 * Xor(a \div 2, b \div 2)

\* hash_file: the hashes of the full chunks, then of what read_to_end returns
RECURSIVE hash_file_from(_, _, _)
hash_file_from(content, len, pos) ==
    IF pos + CHUNK_SIZE < len
    THEN <<seahash(SubSeq(content, pos + 1, pos + CHUNK_SIZE))>>
             \o hash_file_from(content, len, pos + CHUNK_SIZE)
    ELSE <<seahash(SubSeq(content, pos + 1, Len(content)))>>

hash_file(f, len) == hash_file_from(f.content, len, 0)

\* vec.iter().fold(entry.len, |acc, x| acc ^ x)
RECURSIVE FoldXor(_, _)
FoldXor(acc, vec) == IF vec = <<>> THEN acc ELSE FoldXor(Xor(acc, Head(vec)), Tail(vec))

\* DashMap::insert
Insert(m, k, v) == [x \in DOMAIN m \cup {k} |-> IF x = k THEN v ELSE m[x]]

Names(files) == [i \in 1..Len(files) |-> files[i].name]

\* an add_file that inserts the new Entry whether or not the run ingests
FileStore_add_file_insert(st, cfg, f) ==
    LET entry == Entry_new_from_path_meta(f)
    IN IF entry \in DOMAIN st.index
       THEN LET hash == st.index[entry]
                files == st.hindex[hash]
                st1 == IF cfg.prune
                       THEN [st EXCEPT !.present = @ \cup {entry}] ELSE st
            IN IF cfg.present \/ cfg.missing
               THEN IF hash \notin DOMAIN st.hindex
                    THEN \* self.hindex.get(&hash).unwrap()
                         [st |-> st, out |-> <<>>, panic |-> TRUE]
                    ELSE [st |-> st1,
                          out |-> (IF Len(files) >= 2
                                   THEN IF cfg.present THEN <<entry.name>>
                                        ELSE IF cfg.duplicate THEN Names(files)
                                        ELSE <<>>
                                   ELSE <<>>)
                                  \o (IF Len(files) < 2 /\ cfg.missing
                                      THEN <<entry.name>> ELSE <<>>),
                          panic |-> FALSE]
               ELSE [st |-> st1, out |-> <<>>, panic |-> FALSE]
       ELSE LET hash == IF entry.is_file
                        THEN FoldXor(entry.len, hash_file(f, entry.len))
                        ELSE 0
                is_present == hash \in DOMAIN st.hindex
                lines == IF cfg.present \/ cfg.missing \/ cfg.duplicate
                         THEN (IF is_present
                               THEN IF cfg.present THEN <<entry.name>>
                                    ELSE IF cfg.duplicate THEN Names(st.hindex[hash])
                                    ELSE <<>>
                               ELSE <<>>)
                              \o (IF ~is_present /\ cfg.missing
                                  THEN <<entry.name>> ELSE <<>>)
                         ELSE <<>>
            IN [st |-> IF TRUE
                       THEN [st EXCEPT
                                !.present = IF cfg.prune THEN @ \cup {entry} ELSE @,
                                !.index = Insert(@, entry, hash)]
                       ELSE st,
                out |-> lines, panic |-> FALSE]

\* FileStore::add_file on st = [index, hindex, present]: [st, out, panic]
FileStore_add_file(st, cfg, f) ==
    LET entry == Entry_new_from_path_meta(f)
    IN IF entry \in DOMAIN st.index
       THEN LET hash == st.index[entry]
                files == st.hindex[hash]
                st1 == IF cfg.prune
                       THEN [st EXCEPT !.present = @ \cup {entry}] ELSE st
            IN IF cfg.present \/ cfg.missing
               THEN IF hash \notin DOMAIN st.hindex
                    THEN \* self.hindex.get(&hash).unwrap()
                         [st |-> st, out |-> <<>>, panic |-> TRUE]
                    ELSE [st |-> st1,
                          out |-> (IF Len(files) >= 2
                                   THEN IF cfg.present THEN <<entry.name>>
                                        ELSE IF cfg.duplicate THEN Names(files)
                                        ELSE <<>>
                                   ELSE <<>>)
                                  \o (IF Len(files) < 2 /\ cfg.missing
                                      THEN <<entry.name>> ELSE <<>>),
                          panic |-> FALSE]
               ELSE [st |-> st1, out |-> <<>>, panic |-> FALSE]
       ELSE LET hash == IF entry.is_file
                        THEN FoldXor(entry.len, hash_file(f, entry.len))
                        ELSE 0
                is_present == hash \in DOMAIN st.hindex
                lines == IF cfg.present \/ cfg.missing \/ cfg.duplicate
                         THEN (IF is_present
                               THEN IF cfg.present THEN <<entry.name>>
                                    ELSE IF cfg.duplicate THEN Names(st.hindex[hash])
                                    ELSE <<>>
                               ELSE <<>>)
                              \o (IF ~is_present /\ cfg.missing
                                  THEN <<entry.name>> ELSE <<>>)
                         ELSE <<>>
            IN [st |-> IF cfg.injest
                       THEN [st EXCEPT
                                !.present = IF cfg.prune THEN @ \cup {entry} ELSE @,
                                !.index = Insert(@, entry, hash)]
                       ELSE st,
                out |-> lines, panic |-> FALSE]

\* a prune that does not test present.len() > 0
FileStore_prune_unguarded(st, order) ==
    [st |-> [st EXCEPT !.index = [e \in DOMAIN @ \cap st.present |-> @[e]]],
     out |-> Names(order)]

\* FileStore::prune on st = [index, hindex, present], index.iter() yielding
\* the entries to remove in the given order: [st, out]
FileStore_prune(st, order) ==
    IF st.present # {}
    THEN [st |-> [st EXCEPT !.index = [e \in DOMAIN @ \cap st.present |-> @[e]]],
          out |-> Names(order)]
    ELSE [st |-> st, out |-> <<>>]

\* files[0].len > 1000000 and total_size / (1000 * 1000 * 1000)
BIG_FILE == 1000000
GBYTE == 1000000000

\* the loop of FileStore::report over the buckets of hindex that hold more
\* than one Entry, in the order horder: [lines, ndup, ndup_big, total_size]
RECURSIVE FileStore_report_dups(_, _, _, _, _)
FileStore_report_dups(st, cfg, horder, i, acc) ==
    IF i > Len(horder) THEN acc
    ELSE LET files == st.hindex[horder[i]]
         IN FileStore_report_dups(st, cfg, horder, i + 1,
                [lines |-> acc.lines \o (IF cfg.duplicate /\ cfg.injest
                                         THEN Names(files) ELSE <<>>),
                 ndup |-> acc.ndup + 1,
                 ndup_big |-> acc.ndup_big + (IF files[1].len > BIG_FILE THEN 1 ELSE 0),
                 total_size |-> acc.total_size + files[1].len * (Len(files) - 1)])

\* FileStore::report, index.iter() yielding the entries in the order iorder:
\* [out, summary], summary the numbers of the last line printed, if any
FileStore_report(st, cfg, iorder, horder) ==
    LET listed == IF cfg.list THEN Names(iorder) ELSE <<>>
        d == FileStore_report_dups(st, cfg, horder, 1,
                 [lines |-> <<>>, ndup |-> 0, ndup_big |-> 0, total_size |-> 0])
    IN IF cfg.duplicate \/ cfg.report
       THEN [out |-> listed \o d.lines,
             summary |-> Some([ndup |-> d.ndup, ndup_big |-> d.ndup_big,
                               gbytes |-> d.total_size \div GBYTE])]
       ELSE [out |-> listed, summary |-> None]

\* a find_dups_second_archive that does not look at the length of the Entry
RECURSIVE FileStore_find_dups_any_len(_, _, _, _, _)
FileStore_find_dups_any_len(st, cfg, sidx, order, i) ==
    IF i > Len(order) THEN <<>>
    ELSE LET entry == order[i]
             is_present == sidx[entry] \in DOMAIN st.hindex
         IN (IF cfg.missing /\ ~is_present THEN <<entry.name>> ELSE <<>>)
            \o (IF cfg.present /\ is_present THEN <<entry.name>> ELSE <<>>)
            \o FileStore_find_dups_any_len(st, cfg, sidx, order, i + 1)

\* FileStore::find_dups_second_archive, second.index.iter() yielding the entries
\* in the given order: the lines printed
RECURSIVE FileStore_find_dups_second_archive(_, _, _, _, _)
FileStore_find_dups_second_archive(st, cfg, sidx, order, i) ==
    IF i > Len(order) THEN <<>>
    ELSE LET entry == order[i]
             is_present == sidx[entry] \in DOMAIN st.hindex
         IN (IF cfg.missing /\ ~is_present THEN <<entry.name>> ELSE <<>>)
            \o (IF cfg.present /\ is_present /\ entry.len > 0
                THEN <<entry.name>> ELSE <<>>)
            \o FileStore_find_dups_second_archive(st, cfg, sidx, order, i + 1)

\* ItemReadWrite::write_item: the Entry, then its fingerprint
Record_write_item(r, e, h) ==
    Bind(Record_push(r, Entry_encode(e)),
         LAMBDA p : IF p.r.panic THEN p.r ELSE Record_push(p.r, cbor_uint(h)).r)

\* a read_item that takes a missing fingerprint item for the end of the stream
Record_read_item_eof(rd, dsk) ==
    LET Ret(r, k) == [rd |-> r, kind |-> k, e |-> <<>>, h |-> 0]
        Second(p0, i0) ==
            Bind(Record_pull(p0.rd, dsk),
                 LAMBDA p1 :
                     IF p1.kind = "none" THEN Ret(p1.rd, "none")
                     ELSE IF p1.kind # "some" THEN Ret(p1.rd, p1.kind)
                     ELSE Bind(ChunkHash_decode(p1.v),
                               LAMBDA i1 :
                                   IF ~i1.ok THEN Ret(p1.rd, "err")
                                   ELSE [rd |-> p1.rd, kind |-> "some",
                                         e |-> i0.v, h |-> i1.v]))
    IN Bind(Record_pull(rd, dsk),
            LAMBDA p0 :
                IF p0.kind # "some" THEN Ret(p0.rd, p0.kind)
                ELSE Bind(Entry_decode(p0.v),
                          LAMBDA i0 : IF ~i0.ok THEN Ret(p0.rd, "err")
                                      ELSE Second(p0, i0)))

\* ItemReadWrite::read_item: [rd, kind, e, h]
Record_read_item(rd, dsk) ==
    LET Ret(r, k) == [rd |-> r, kind |-> k, e |-> <<>>, h |-> 0]
        Second(p0, i0) ==
            Bind(Record_pull(p0.rd, dsk),
                 LAMBDA p1 :
                     IF p1.kind = "none" THEN Ret(p1.rd, "err")
                     ELSE IF p1.kind # "some" THEN Ret(p1.rd, p1.kind)
                     ELSE Bind(ChunkHash_decode(p1.v),
                               LAMBDA i1 :
                                   IF ~i1.ok THEN Ret(p1.rd, "err")
                                   ELSE [rd |-> p1.rd, kind |-> "some",
                                         e |-> i0.v, h |-> i1.v]))
    IN Bind(Record_pull(rd, dsk),
            LAMBDA p0 :
                IF p0.kind # "some" THEN Ret(p0.rd, p0.kind)
                ELSE Bind(Entry_decode(p0.v),
                          LAMBDA i0 : IF ~i0.ok THEN Ret(p0.rd, "err")
                                      ELSE Second(p0, i0)))

\* Record::new (src/src/record.rs:122-131) around the Archive of the state: the
\* clone of self.record that write and read work on
Record_new ==
    [write_buffer |-> <<>>,
     archive |-> [limit |-> ARCHIVE_SIZE, write_buffer |-> <<>>,
                  write_serial_number |-> 0, spawned |-> <<>>, panic |-> FALSE,
                  written |-> <<>>],
     panic |-> FALSE, flushed |-> <<>>]

\* the orders in which index.iter() can yield the entries
Orders(S) ==
    {o \in [1..Cardinality(S) -> S] : \A i, j \in DOMAIN o : o[i] = o[j] => i = j}

RECURSIVE FileStore_write_items(_, _, _, _)
FileStore_write_items(r, idx, order, i) ==
    IF i > Len(order) \/ r.panic THEN r
    ELSE Bind(Record_write_item(r, order[i], idx[order[i]]),
              LAMBDA r1 : FileStore_write_items(r1, idx, order, i + 1))

---------------------------------------------------------------------------
\* Two consecutive runs on one archive directory, the first on an empty one.
\* A run loads the archive, calls add_file on files of the tree and, when it
\* ingests, may write the store; the second run starts when the first has
\* returned from its write, or without a write.

MaxAdds == 2

\* Config::new (src/src/lib.rs:47-80) on the flags src/src/main.rs accepts: the
\* four query flags exclude each other, --prune requires --injest.  prune is the
\* flag add_file reads as config.prune (src/src/file.rs:134, 179).  Of the
\* command lines with --report or --list, those explored are --report alone,
\* with --duplicate or with --list, and --list with --check
Args ==
    {a \in [check : BOOLEAN,
            query : {"none", "missing", "present", "duplicate", "list"},
            prune : BOOLEAN, report : BOOLEAN, concurrency : {1, 2}, timeout : {1}] :
        /\ a.prune => ~a.check
        /\ a.report => (a.query \in {"none", "duplicate", "list"} /\ ~a.prune)
        /\ a.query = "list" => a.check}

Config_new(a) ==
    LET injest == ~a.check
        cpresent == a.query = "present"
        cduplicate == a.query = "duplicate"
    IN [injest |-> injest, list |-> a.query = "list", report |-> a.report,
        missing |-> a.query = "missing" \/ (~injest /\ ~cpresent /\ ~cduplicate),
        present |-> cpresent, duplicate |-> cduplicate, prune |-> a.prune,
        concurrency |-> a.concurrency, timeout |-> a.timeout]

Configs == {Config_new(a) : a \in Args}

\* the FileStore reads neither concurrency nor timeout
StoreConfigs == {c \in Configs : c.concurrency = 1}

TheStore == [index |-> index, hindex |-> hindex, present |-> present]

\* one turn of the loop of FileStore::read
ReadItem ==
    /\ phase \in {"load", "reload"}
    /\ \E x \in {Record_read_item(TheReader, disk)} :
          /\ x.kind = "spin" => \A t \in 1..Len(tasks) : Ended(t)
          /\ SetReader(x.rd)
          /\ IF x.kind = "some"
             THEN /\ index' = Insert(index, x.e, x.h)
                  /\ hindex' = Insert(hindex, x.h,
                                      IF x.h \in DOMAIN hindex
                                      THEN Append(hindex[x.h], x.e) ELSE <<x.e>>)
                  /\ UNCHANGED phase
             ELSE /\ UNCHANGED <<index, hindex>>
                  /\ phase' = IF x.kind \in {"panic", "spin"} THEN x.kind
                              ELSE IF phase = "load" THEN "walk" ELSE "rewalk"
    /\ UNCHANGED <<arcWVars, active_tasks, waiting_tasks, taskVars, ownerVars,
                   rec_write_buffer, clientVars, present, config, out, adds, saved,
                   summary, second,
                   brokerVars>>

AddFile(f) ==
    /\ phase \in {"walk", "rewalk"}
    /\ adds < MaxAdds
    /\ \E x \in {FileStore_add_file(TheStore, config, f)} :
          /\ index' = x.st.index
          /\ hindex' = x.st.hindex
          /\ present' = x.st.present
          /\ out' = x.out
          /\ phase' = IF x.panic THEN "panic" ELSE phase
    /\ adds' = adds + 1
    /\ UNCHANGED <<archVars, taskVars, ownerVars, recVars, clientVars, config, saved,
                   summary, second,
                   brokerVars>>

\* FileStore::write up to the await of finish.  record.backup() finds no
\* segment file: the directory was empty when the run started
StoreWrite ==
    /\ phase = "walk"
    /\ config.injest
    /\ \E order \in Orders(DOMAIN index) :
          \E r \in {Record_finish(FileStore_write_items(Record_new, index, order, 1))} :
             IF r.panic
             THEN /\ phase' = "panic"
                  /\ UNCHANGED <<arcWVars, waiting_tasks, tasks, rec_write_buffer,
                                 pc, tc_caller>>
             ELSE /\ SetRecord(r)
                  /\ phase' = "write"
                  /\ pc' = "tc_w" /\ tc_caller' = "finish"
    /\ saved' = Some(index)
    /\ UNCHANGED <<active_tasks, arcRVars, disk, tc_w, reported, finished,
                   rec_read_buffer, clientVars, index, hindex, present, config,
                   out, adds, summary, second, brokerVars>>

\* the next run: FileStore::new on the same directory, with its own flags.
\* The run before has returned from its write, has not written, or was stopped
\* while its write waited for a task whose file could not be written
Reopen ==
    /\ \/ phase = "write" /\ pc = "after"
       \/ phase = "walk"
       \/ /\ phase = "write"
          /\ \A t \in 1..Len(tasks) : Ended(t)
          /\ \E t \in 1..Len(tasks) : tasks[t].pc = "failed"
    /\ phase' = "reload"
    /\ index' = EmptyMap /\ hindex' = EmptyMap /\ present' = {}
    /\ config' \in StoreConfigs
    /\ out' = <<>> /\ adds' = 0
    /\ summary' = None /\ second' = EmptyMap
    /\ SetReader([read_buffer |-> ReadBuf_new,
                  archive |-> [read_buffer |-> None, read_serial_number |-> 0,
                               read_offset |-> 0]])
    /\ UNCHANGED <<arcWVars, active_tasks, waiting_tasks, taskVars, ownerVars,
                   rec_write_buffer, clientVars, saved, brokerVars>>

InitStore ==
    /\ InitArchiveVars
    /\ InitIdleRecord
    /\ index = EmptyMap /\ hindex = EmptyMap /\ present = {}
    /\ config \in StoreConfigs
    /\ out = <<>> /\ phase = "load" /\ adds = 0 /\ saved = None
    /\ summary = None /\ second = EmptyMap
    /\ InitIdleBroker

NextStore ==
    \/ ReadItem
    \/ \E f \in Files : AddFile(f)
    \/ StoreWrite
    \/ LoadWaiting
    \/ LoadActive
    \/ FinishPoll
    \/ Reopen
    \/ \E t \in 1..Len(tasks) : TaskStep(t)
    \/ \E t \in 1..Len(tasks) : TaskIoError(t)

SpecStore == InitStore /\ [][NextStore]_vars

---------------------------------------------------------------------------
\* One run on an archive directory that an earlier run has written completely:
\* the archive is loaded, then add_file is called on files of the tree and the
\* run ends with prune or report; or the second-archive tool is run.

\* the loop of FileStore::read: [st, rd, kind], kind what the last read_item
\* returned
RECURSIVE FileStore_read(_, _, _)
FileStore_read(rd, dsk, st) ==
    Bind(Record_read_item(rd, dsk),
         LAMBDA x :
             IF x.kind = "some"
             THEN FileStore_read(x.rd, dsk,
                      [st EXCEPT !.index = Insert(@, x.e, x.h),
                                 !.hindex = Insert(@, x.h,
                                                IF x.h \in DOMAIN @
                                                THEN Append(@[x.h], x.e)
                                                ELSE <<x.e>>)])
             ELSE [st |-> st, rd |-> x.rd, kind |-> x.kind])

\* the segment files once every write task of a write has ended well
DiskOf(spawned) ==
    [n \in {spawned[i].name : i \in DOMAIN spawned} |->
        LET i == CHOOSE j \in DOMAIN spawned : spawned[j].name = n
        IN Some(spawned[i].v)]

MaxIngested == 2

\* the files an earlier run has ingested
Ingested == {T \in SUBSET Files : Cardinality(T) <= MaxIngested}

\* FileStore::prune, called once the walk of a run with --prune is over
Prune ==
    /\ phase \in {"walk", "rewalk"}
    /\ config.prune
    /\ \E order \in Orders(IF present = {} THEN {} ELSE DOMAIN index \ present) :
          \E x \in {FileStore_prune(TheStore, order)} :
             /\ index' = x.st.index
             /\ hindex' = x.st.hindex
             /\ present' = x.st.present
             /\ out' = x.out
    /\ phase' = IF phase = "walk" THEN "pruned" ELSE "repruned"
    /\ UNCHANGED <<archVars, taskVars, ownerVars, recVars, clientVars, config, adds,
                   saved, summary, second, brokerVars>>

\* the buckets of hindex that hold more than one Entry
DupKeys == {h \in DOMAIN hindex : Len(hindex[h]) > 1}

\* FileStore::report as dir_broker_loop calls it at completion
\* (src/src/dir.rs:148-150), after the walk
StoreReport ==
    /\ phase \in {"walk", "rewalk"}
    /\ config.report
    /\ \E iorder \in (IF config.list THEN Orders(DOMAIN index) ELSE {<<>>}) :
          \E horder \in Orders(DupKeys) :
             \E x \in {FileStore_report(TheStore, config, iorder, horder)} :
                /\ out' = x.out
                /\ summary' = x.summary
    /\ phase' = IF phase = "rewalk" THEN "rereport" ELSE "report"
    /\ UNCHANGED <<archVars, taskVars, ownerVars, recVars, clientVars, index, hindex,
                   present, config, adds, saved, second, brokerVars>>

\* the FileIndex of a store that has ingested the files of S
IndexOf(S) ==
    [e \in {Entry_new_from_path_meta(f) : f \in S} |->
        LET f == CHOOSE g \in S : Entry_new_from_path_meta(g) = e
        IN FoldXor(e.len, hash_file(f, e.len))]

\* the second archives
SecondIndexes == {IndexOf(S) : S \in Ingested}

\* the find_dups_second_archive tool (src/src/bin/find_dups_second_archive.rs):
\* both stores are read, then the first is asked about the second
FindDups(other) ==
    /\ phase = "rewalk" /\ adds = 0
    /\ second' = other
    /\ \E order \in Orders(DOMAIN other) :
          out' = FileStore_find_dups_second_archive(TheStore, config, other, order, 1)
    /\ phase' = "diff"
    /\ UNCHANGED <<archVars, taskVars, ownerVars, recVars, clientVars, index, hindex,
                   present, config, adds, saved, summary, brokerVars>>

InitQuery ==
    /\ limit = ARCHIVE_SIZE
    /\ arc_write_buffer = <<>> /\ write_serial_number = 0
    /\ active_tasks = 0 /\ waiting_tasks = 0 /\ tasks = <<>>
    /\ pc = "idle" /\ tc_caller = "user" /\ tc_w = 0
    /\ reported = NoReport /\ finished = FALSE
    /\ rec_write_buffer = <<>>
    /\ pushed = <<>> /\ locs = <<>> /\ pulled = <<>> /\ sought = 0
    /\ \E S \in Ingested :
          \E order \in Orders(DOMAIN IndexOf(S)) :
             \E r \in {Record_finish(FileStore_write_items(Record_new, IndexOf(S),
                                                           order, 1))} :
                \E x \in {FileStore_read(
                              [read_buffer |-> ReadBuf_new,
                               archive |-> [read_buffer |-> None,
                                            read_serial_number |-> 0,
                                            read_offset |-> 0]],
                              DiskOf(r.archive.spawned),
                              [index |-> EmptyMap, hindex |-> EmptyMap,
                               present |-> {}])} :
                   /\ ~r.panic /\ x.kind \in {"none", "err"}
                   /\ disk = DiskOf(r.archive.spawned)
                   /\ rec_read_buffer = x.rd.read_buffer
                   /\ arc_read_buffer = x.rd.archive.read_buffer
                   /\ read_serial_number = x.rd.archive.read_serial_number
                   /\ read_offset = x.rd.archive.read_offset
                   /\ index = x.st.index /\ hindex = x.st.hindex
                   /\ saved = Some(IndexOf(S))
    /\ present = {}
    /\ config \in StoreConfigs
    /\ out = <<>> /\ phase = "rewalk" /\ adds = 0
    /\ summary = None /\ second = EmptyMap
    /\ InitIdleBroker

NextQuery ==
    \/ \E f \in Files : AddFile(f)
    \/ Prune
    \/ StoreReport
    \/ \E other \in SecondIndexes : FindDups(other)

SpecQuery == InitQuery /\ [][NextQuery]_vars

---------------------------------------------------------------------------
\* The load of a run on an archive whose stream is whole or ends right after an
\* Entry: the pairs of a FileIndex were pushed, then possibly one more Entry
\* with no fingerprint behind it, and every segment file was written.

\* the items write_item pushes for the entries of idx taken in order
ItemsOf(idx, order) ==
    [k \in 1..(2 * Len(order)) |->
        IF k % 2 = 1 THEN Entry_encode(order[(k + 1) \div 2])
        ELSE cbor_uint(idx[order[k \div 2]])]

\* the Entry that ends the stream with no fingerprint, if there is one
LoneEntries == {None} \cup {Some(Entry_new_from_path_meta(f)) : f \in Files}

InitLoad ==
    /\ limit = ARCHIVE_SIZE
    /\ arc_write_buffer = <<>> /\ write_serial_number = 0
    /\ active_tasks = 0 /\ waiting_tasks = 0 /\ tasks = <<>>
    /\ pc = "idle" /\ tc_caller = "user" /\ tc_w = 0
    /\ reported = NoReport /\ finished = FALSE
    /\ rec_write_buffer = <<>> /\ rec_read_buffer = ReadBuf_new
    /\ arc_read_buffer = None /\ read_serial_number = 0 /\ read_offset = 0
    /\ locs = <<>> /\ pulled = <<>> /\ sought = 0
    /\ \E S \in Ingested :
          \E order \in Orders(DOMAIN IndexOf(S)) :
             \E lone \in LoneEntries :
                \E r0 \in {FileStore_write_items(Record_new, IndexOf(S), order, 1)} :
                   \E r \in {Record_finish(IF lone.some
                                            THEN Record_push(r0, Entry_encode(lone.v)).r
                                            ELSE r0)} :
                      /\ ~r.panic
                      /\ disk = DiskOf(r.archive.spawned)
                      /\ pushed = ItemsOf(IndexOf(S), order)
                                      \o (IF lone.some THEN <<Entry_encode(lone.v)>>
                                          ELSE <<>>)
                      /\ saved = Some(IndexOf(S))
    /\ index = EmptyMap /\ hindex = EmptyMap /\ present = {}
    /\ config \in StoreConfigs
    /\ out = <<>> /\ phase = "load" /\ adds = 0
    /\ summary = None /\ second = EmptyMap
    /\ InitIdleBroker

NextLoad == ReadItem

SpecLoad == InitLoad /\ [][NextLoad]_vars

---------------------------------------------------------------------------
\* The walk of an ingest run by two process_dir tasks at once
\* (src/src/dir.rs:116-127, 156-217): each calls add_file on the files of its
\* directory, one after the other.  add_file is not atomic: between its
\* index.contains_key and its index.insert lies the await of hash_file, during
\* which the other task runs.

MaxDirFiles == 2

\* the files of the walked tree (one file per path), and the file lists of a
\* directory; two overlapping roots give the same file to both tasks
TreeFiles == {FileA, FileB, FileC}
DirLists ==
    {l \in UNION {[1..n -> TreeFiles] : n \in 1..MaxDirFiles} :
        \A i, j \in DOMAIN l : l[i] = l[j] => i = j}

\* add_file from the await of hash_file on (src/src/file.rs:138-185), for an
\* Entry that index.contains_key did not find: [st, out, panic]
FileStore_add_file_hashed(st, cfg, f) ==
    LET entry == Entry_new_from_path_meta(f)
        hash == IF entry.is_file
                THEN FoldXor(entry.len, hash_file(f, entry.len))
                ELSE 0
        is_present == hash \in DOMAIN st.hindex
        lines == IF cfg.present \/ cfg.missing \/ cfg.duplicate
                 THEN (IF is_present
                       THEN IF cfg.present THEN <<entry.name>>
                            ELSE IF cfg.duplicate THEN Names(st.hindex[hash])
                            ELSE <<>>
                       ELSE <<>>)
                      \o (IF ~is_present /\ cfg.missing
                          THEN <<entry.name>> ELSE <<>>)
                 ELSE <<>>
    IN [st |-> IF cfg.injest
               THEN [st EXCEPT
                        !.present = IF cfg.prune THEN @ \cup {entry} ELSE @,
                        !.index = Insert(@, entry, hash)]
               ELSE st,
        out |-> lines, panic |-> FALSE]

\* a process_dir task: the files it has yet to hand to add_file, and where it
\* is in add_file: "check" before index.contains_key, "hash" in hash_file,
\* "panic" once an unwrap has ended the task.  The panic of a task ends that
\* task, or the whole process where the runtime aborts on it (phase "abort")
Scanning(s, p) == s \in DOMAIN scanners /\ scanners[s].pc = p /\ scanners[s].files # <<>>

\* add_file up to the await of hash_file; the whole of it when the Entry is in
\* FileIndex
AddFileCheck(s) ==
    /\ phase = "scan"
    /\ Scanning(s, "check")
    /\ LET f == Head(scanners[s].files)
       IN IF Entry_new_from_path_meta(f) \in DOMAIN index
          THEN \E x \in {FileStore_add_file(TheStore, config, f)} :
                  /\ index' = x.st.index
                  /\ hindex' = x.st.hindex
                  /\ present' = x.st.present
                  /\ out' = x.out
                  /\ scanners' = [scanners EXCEPT
                                     ![s].pc = IF x.panic THEN "panic" ELSE "check",
                                     ![s].files = IF x.panic THEN @ ELSE Tail(@)]
                  /\ phase' \in (IF x.panic THEN {"scan", "abort"} ELSE {"scan"})
          ELSE /\ scanners' = [scanners EXCEPT ![s].pc = "hash"]
               /\ UNCHANGED <<index, hindex, present, out, phase>>
    /\ UNCHANGED <<archVars, taskVars, ownerVars, recVars, clientVars, config,
                   adds, saved, summary, second, roots, seeded, broker, chan, parked,
                   now, nfiles, advanced>>

\* the rest of add_file for an Entry that was not in FileIndex
AddFileInsert(s) ==
    /\ phase = "scan"
    /\ Scanning(s, "hash")
    /\ \E x \in {FileStore_add_file_hashed(TheStore, config, Head(scanners[s].files))} :
          /\ index' = x.st.index
          /\ hindex' = x.st.hindex
          /\ present' = x.st.present
          /\ out' = x.out
    /\ scanners' = [scanners EXCEPT ![s].pc = "check", ![s].files = Tail(@)]
    /\ UNCHANGED <<archVars, taskVars, ownerVars, recVars, clientVars, config, phase,
                   adds, saved, summary, second, roots, seeded, broker, chan, parked,
                   now, nfiles, advanced>>

\* the ingest runs: --injest alone or with one of the query flags or --prune
ScanConfigs == {c \in Configs : c.injest /\ c.concurrency = 2 /\ ~c.report}

InitScan ==
    /\ limit = ARCHIVE_SIZE
    /\ arc_write_buffer = <<>> /\ write_serial_number = 0
    /\ active_tasks = 0 /\ waiting_tasks = 0 /\ tasks = <<>>
    /\ pc = "idle" /\ tc_caller = "user" /\ tc_w = 0
    /\ reported = NoReport /\ finished = FALSE
    /\ rec_write_buffer = <<>>
    /\ pushed = <<>> /\ locs = <<>> /\ pulled = <<>> /\ sought = 0
    /\ \E S \in Ingested :
          \E order \in Orders(DOMAIN IndexOf(S)) :
             \E r \in {Record_finish(FileStore_write_items(Record_new, IndexOf(S),
                                                           order, 1))} :
                \E x \in {FileStore_read(
                              [read_buffer |-> ReadBuf_new,
                               archive |-> [read_buffer |-> None,
                                            read_serial_number |-> 0,
                                            read_offset |-> 0]],
                              DiskOf(r.archive.spawned),
                              [index |-> EmptyMap, hindex |-> EmptyMap,
                               present |-> {}])} :
                   /\ ~r.panic /\ x.kind \in {"none", "err"}
                   /\ disk = DiskOf(r.archive.spawned)
                   /\ rec_read_buffer = x.rd.read_buffer
                   /\ arc_read_buffer = x.rd.archive.read_buffer
                   /\ read_serial_number = x.rd.archive.read_serial_number
                   /\ read_offset = x.rd.archive.read_offset
                   /\ index = x.st.index /\ hindex = x.st.hindex
                   /\ saved = Some(IndexOf(S))
    /\ present = {}
    /\ config \in ScanConfigs
    /\ out = <<>> /\ phase = "scan" /\ adds = 0
    /\ summary = None /\ second = EmptyMap
    /\ roots = <<>> /\ seeded = 0 /\ broker = Broker_new
    /\ chan = <<>> /\ parked = <<>> /\ now = 0 /\ nfiles = 0 /\ advanced = 0
    /\ \E l1, l2 \in DirLists :
          scanners = <<[pc |-> "check", files |-> l1, dir |-> l1],
                       [pc |-> "check", files |-> l2, dir |-> l2]>>

NextScan ==
    \/ \E s \in 1..2 : AddFileCheck(s)
    \/ \E s \in 1..2 : AddFileInsert(s)

SpecScan == InitScan /\ [][NextScan]_vars

----------------------------------------------------------------------------
\* hash_file step by step (src/src/file.rs:333-349), as add_file runs it for a
\* regular file that is not in FileIndex

MaxFileLen == 5

\* the files hashed: every content of at most MaxFileLen bytes
HashBytes == {1, 2}
HashContents == UNION {[1..n -> HashBytes] : n \in 0..MaxFileLen}
HashFiles ==
    {[path |-> <<97>>, content |-> c, mod_secs |-> 0, is_file |-> TRUE] :
        c \in HashContents}

\* the task is in hash_file at p
Hashing(s, p) == s \in DOMAIN scanners /\ scanners[s].pc = p

\* let mut f = File::open(path).await?; let mut pos = 0;
HashOpen(s) ==
    /\ phase = "scan"
    /\ Hashing(s, "open")
    /\ \E ok \in BOOLEAN :
          scanners' = [scanners EXCEPT ![s].pc = IF ok THEN "loop" ELSE "err",
                                       ![s].pos = 0, ![s].ret = <<>>]
    /\ UNCHANGED <<archVars, taskVars, ownerVars, recVars, clientVars, storeVars,
                   roots, seeded, broker, chan, parked, now, nfiles, advanced>>

\* one turn of `while pos + CHUNK_SIZE < len`: read_exact of CHUNK_SIZE bytes
HashChunk(s) ==
    /\ phase = "scan"
    /\ Hashing(s, "loop")
    /\ scanners[s].pos + CHUNK_SIZE < scanners[s].len
    /\ LET pos == scanners[s].pos
           buf == SubSeq(scanners[s].file.content, pos + 1, pos + CHUNK_SIZE)
       IN scanners' = [scanners EXCEPT ![s].ret = Append(@, seahash(buf)),
                                       ![s].pos = pos + CHUNK_SIZE]
    /\ UNCHANGED <<archVars, taskVars, ownerVars, recVars, clientVars, storeVars,
                   roots, seeded, broker, chan, parked, now, nfiles, advanced>>

\* the loop is left; read_to_end reads what the file holds after pos
HashTail(s) ==
    /\ phase = "scan"
    /\ Hashing(s, "loop")
    /\ ~(scanners[s].pos + CHUNK_SIZE < scanners[s].len)
    /\ LET c == scanners[s].file.content
           buf == SubSeq(c, scanners[s].pos + 1, Len(c))
       IN scanners' = [scanners EXCEPT ![s].ret = Append(@, seahash(buf)),
                                       ![s].tail = Len(buf),
                                       ![s].pc = "fold"]
    /\ UNCHANGED <<archVars, taskVars, ownerVars, recVars, clientVars, storeVars,
                   roots, seeded, broker, chan, parked, now, nfiles, advanced>>

\* vec.iter().fold(entry.len, |acc, x| acc ^ x) and the insert of an ingest run
\* (src/src/file.rs:139-140, 178-184)
HashFold(s) ==
    /\ phase = "scan"
    /\ Hashing(s, "fold")
    /\ LET entry == Entry_new_from_path_meta(scanners[s].file)
           hash == FoldXor(entry.len, scanners[s].ret)
       IN index' = IF config.injest THEN Insert(index, entry, hash) ELSE index
    /\ scanners' = [scanners EXCEPT ![s].pc = "done"]
    /\ UNCHANGED <<archVars, taskVars, ownerVars, recVars, clientVars, hindex,
                   present, config, out, phase, adds, saved, summary, second,
                   roots, seeded, broker, chan, parked, now, nfiles, advanced>>

\* an ingest run on an empty archive; one process_dir task has called add_file
\* on a file, which index.contains_key did not find
InitHash ==
    /\ InitArchiveVars
    /\ InitIdleRecord
    /\ index = EmptyMap /\ hindex = EmptyMap /\ present = {}
    /\ out = <<>> /\ phase = "scan" /\ adds = 0 /\ saved = None
    /\ summary = None /\ second = EmptyMap
    /\ config \in {c \in ScanConfigs : ~c.missing /\ ~c.present /\ ~c.duplicate
                                        /\ ~c.prune}
    /\ roots = <<>> /\ seeded = 0 /\ broker = Broker_new
    /\ chan = <<>> /\ parked = <<>> /\ now = 0 /\ nfiles = 0 /\ advanced = 0
    /\ \E f \in HashFiles :
          scanners = <<[pc |-> "open", file |-> f, len |-> Len(f.content),
                        pos |-> 0, ret |-> <<>>, tail |-> 0]>>

NextHash ==
    \/ HashOpen(1)
    \/ HashChunk(1)
    \/ HashTail(1)
    \/ HashFold(1)

SpecHash == InitHash /\ [][NextHash]_vars


---------------------------------------------------------------------------
\* launch_brokers, dir_broker_loop, process_dir and the timer (src/src/lib.rs,
\* src/src/dir.rs).  The FileStore is seen through the number of its entries.
\* Time is counted in periods of the timer.

\* channel(100), scaled
ChanBuffer == 2

MaxTicks == 3

\* the walked tree: the entries of each directory, 0 a file, otherwise the
\* number of a subdirectory
Tree == << <<2, 0, 3>>, <<0>>, <<>> >>

\* the path lists given to --injest or --check: one root, two roots, and more
\* roots than the channel buffers
Injests == {<<1>>, <<2, 3>>, <<3, 3, 3>>}

\* the archive loaded at start holds no entry, or one
InitialFiles == {0, 1}

\* the flags the broker reads: injest, concurrency, timeout
BrokerConfigs ==
    {Config_new(a) : a \in {x \in Args : x.query = "none" /\ ~x.prune /\ ~x.report}}

\* the senders: the clone of launch_brokers, the clone the timer makes for every
\* Report, and the clone handed to the s-th process_dir task
Driver == 0
Timer == -1

Parked(id) == \E i \in DOMAIN parked : parked[i] = id

\* the Receiver is dropped when dir_broker_loop returns
Closed == broker.pc = "exit"

\* Sender::send on an open channel: the message is queued, and the sender parks
\* when the queue then holds more than the buffer; a parked sender waits in send
ChanSend(id, msg) ==
    /\ chan' = Append(chan, msg)
    /\ parked' = IF Len(chan) + 1 > ChanBuffer THEN Append(parked, id) ELSE parked

\* launch_brokers: send NewDir for the next root
Seed ==
    /\ broker.pc = "new"
    /\ seeded < Len(roots)
    /\ ~Parked(Driver)
    /\ ChanSend(Driver, [type |-> "NewDir", path |-> roots[seeded + 1]])
    /\ seeded' = seeded + 1
    /\ UNCHANGED <<archVars, taskVars, ownerVars, recVars, clientVars, storeVars,
                   roots, broker, scanners, now, nfiles, advanced>>

\* launch_brokers spawns dir_broker_loop, which loads the archive
\* (src/src/dir.rs:39-55), and the timer
BrokerSpawn ==
    /\ broker.pc = "new"
    /\ seeded = Len(roots)
    /\ ~Parked(Driver)
    /\ broker' = [broker EXCEPT !.pc = "loop", !.initial_files = nfiles]
    /\ UNCHANGED <<archVars, taskVars, ownerVars, recVars, clientVars, storeVars,
                   roots, seeded, chan, parked, scanners, now, nfiles, advanced>>

\* timer_broker_loop: one period passes, then Report is sent
TimerTick ==
    /\ broker.pc = "loop"
    /\ now < MaxTicks
    /\ ~Parked(Timer)
    /\ now' = now + 1
    /\ ChanSend(Timer, [type |-> "Report"])
    /\ UNCHANGED <<archVars, taskVars, ownerVars, recVars, clientVars, storeVars,
                   roots, seeded, broker, scanners, nfiles, advanced>>

\* process_dir as spawned by the broker
NewScanner(path) ==
    [path |-> path, pc |-> "open", pos |-> 1, files |-> 0, dirs |-> 0, errors |-> 0]

\* a match that takes the stall exit as soon as elapsed() reaches the timeout
Broker_handle_ge(b, msg) ==
    IF msg.type = "NewDir" THEN [b EXCEPT !.todo = Append(@, msg.path)]
    ELSE IF msg.type \in {"Error", "Done"} /\ b.active_count = 0
    THEN \* active_count -= 1 on 0
         [b EXCEPT !.pc = "panic"]
    ELSE IF msg.type = "Error"
    THEN [b EXCEPT !.active_count = @ - 1, !.error_count = @ + 1]
    ELSE IF msg.type = "Done"
    THEN [b EXCEPT !.active_count = @ - 1, !.error_count = @ + msg.errors,
                   !.file_count = @ + msg.files]
    ELSE LET b1 == IF nfiles > b.last_nfiles \/ b.file_count > b.last_file_count
                      \/ b.dir_count > b.last_dir_count
                   THEN [b EXCEPT !.last_nfiles = nfiles,
                                  !.last_dir_count = b.dir_count,
                                  !.last_file_count = b.file_count,
                                  !.last_change_event = now]
                   ELSE b
         IN IF now - b1.last_change_event >= config.timeout
            THEN [b1 EXCEPT !.pc = "exit", !.exit = "stall",
                            !.writes = IF config.injest /\ nfiles > b.initial_files
                                       THEN @ + 1 ELSE @]
            ELSE b1

\* the match on the message (src/src/dir.rs:60-113)
Broker_handle(b, msg) ==
    IF msg.type = "NewDir" THEN [b EXCEPT !.todo = Append(@, msg.path)]
    ELSE IF msg.type \in {"Error", "Done"} /\ b.active_count = 0
    THEN \* active_count -= 1 on 0
         [b EXCEPT !.pc = "panic"]
    ELSE IF msg.type = "Error"
    THEN [b EXCEPT !.active_count = @ - 1, !.error_count = @ + 1]
    ELSE IF msg.type = "Done"
    THEN [b EXCEPT !.active_count = @ - 1, !.error_count = @ + msg.errors,
                   !.file_count = @ + msg.files]
    ELSE LET b1 == IF nfiles > b.last_nfiles \/ b.file_count > b.last_file_count
                      \/ b.dir_count > b.last_dir_count
                   THEN [b EXCEPT !.last_nfiles = nfiles,
                                  !.last_dir_count = b.dir_count,
                                  !.last_file_count = b.file_count,
                                  !.last_change_event = now]
                   ELSE b
         IN IF now - b1.last_change_event > config.timeout
            THEN [b1 EXCEPT !.pc = "exit", !.exit = "stall",
                            !.writes = IF config.injest /\ nfiles > b.initial_files
                                       THEN @ + 1 ELSE @]
            ELSE b1

\* a dispatch loop that tests active_count <= concurrency
RECURSIVE Broker_dispatch_le(_, _)
Broker_dispatch_le(b, sc) ==
    IF b.todo # <<>> /\ b.active_count <= config.concurrency
    THEN Broker_dispatch_le([b EXCEPT !.todo = SubSeq(@, 1, Len(@) - 1),
                                      !.active_count = @ + 1, !.dir_count = @ + 1],
                            Append(sc, NewScanner(b.todo[Len(b.todo)])))
    ELSE [b |-> b, sc |-> sc]

\* the dispatch loop (src/src/dir.rs:117-127): [b, sc]
RECURSIVE Broker_dispatch(_, _)
Broker_dispatch(b, sc) ==
    IF b.todo # <<>> /\ b.active_count < config.concurrency
    THEN Broker_dispatch([b EXCEPT !.todo = SubSeq(@, 1, Len(@) - 1),
                                   !.active_count = @ + 1, !.dir_count = @ + 1],
                         Append(sc, NewScanner(b.todo[Len(b.todo)])))
    ELSE [b |-> b, sc |-> sc]

\* a completion test that looks at todo alone
Broker_complete_todo(b) ==
    IF b.todo = <<>>
    THEN [b EXCEPT !.pc = "exit", !.exit = "done",
                   !.writes = IF config.injest /\ nfiles > b.initial_files
                              THEN @ + 1 ELSE @]
    ELSE b

\* a completion that writes the archive whenever ingest is enabled
Broker_complete_any(b) ==
    IF b.active_count = 0 /\ b.todo = <<>>
    THEN [b EXCEPT !.pc = "exit", !.exit = "done",
                   !.writes = IF config.injest THEN @ + 1 ELSE @]
    ELSE b

\* the completion test (src/src/dir.rs:130-153)
Broker_complete(b) ==
    IF b.active_count = 0 /\ b.todo = <<>>
    THEN [b EXCEPT !.pc = "exit", !.exit = "done",
                   !.writes = IF config.injest /\ nfiles > b.initial_files
                              THEN @ + 1 ELSE @]
    ELSE b

\* one turn of the loop of dir_broker_loop.  Taking a message unparks the
\* sender that has been parked longest
BrokerRecv ==
    /\ broker.pc = "loop"
    /\ chan # <<>>
    /\ chan' = Tail(chan)
    /\ parked' = IF parked # <<>> THEN Tail(parked) ELSE parked
    /\ \E b1 \in {Broker_handle(broker, Head(chan))} :
          IF b1.pc # "loop"
          THEN broker' = b1 /\ UNCHANGED scanners
          ELSE \E d \in {Broker_dispatch(b1, scanners)} :
                  /\ broker' = Broker_complete(d.b)
                  /\ scanners' = d.sc
    /\ advanced' = IF broker'.file_count > broker.file_count
                      \/ broker'.dir_count > broker.dir_count
                   THEN now ELSE advanced
    /\ UNCHANGED <<archVars, taskVars, ownerVars, recVars, clientVars, storeVars,
                   roots, seeded, now, nfiles>>

\* a process_dir task that is not waiting in a send
Running(s) == scanners[s].pc \in {"open", "iter"} /\ ~Parked(s)

ScanTo(s, f) == scanners' = [scanners EXCEPT ![s] = f]

\* dir_broker_sender.send(msg).await?, then the task goes on as nxt; the send
\* fails when the Receiver is gone, and the task returns the error
ScanSend(s, msg, nxt) ==
    IF Closed
    THEN /\ ScanTo(s, [scanners[s] EXCEPT !.pc = "aborted"])
         /\ UNCHANGED <<chan, parked>>
    ELSE /\ ChanSend(s, msg)
         /\ ScanTo(s, nxt)

\* fs::read_dir succeeds
ScanOpen(s) ==
    /\ Running(s) /\ scanners[s].pc = "open"
    /\ ScanTo(s, [scanners[s] EXCEPT !.pc = "iter"])
    /\ UNCHANGED <<archVars, taskVars, ownerVars, recVars, clientVars, storeVars,
                   roots, seeded, broker, chan, parked, now, nfiles, advanced>>

\* fs::read_dir fails: Error is sent
ScanOpenErr(s) ==
    /\ Running(s) /\ scanners[s].pc = "open"
    /\ ScanSend(s, [type |-> "Error"], [scanners[s] EXCEPT !.pc = "end"])
    /\ UNCHANGED <<archVars, taskVars, ownerVars, recVars, clientVars, storeVars,
                   roots, seeded, broker, now, nfiles, advanced>>

HasEntry(s) ==
    Running(s) /\ scanners[s].pc = "iter"
    /\ scanners[s].pos <= Len(Tree[scanners[s].path])

\* dir.next() yields an error: let entry = res?
ScanEnumErr(s) ==
    /\ HasEntry(s)
    /\ ScanTo(s, [scanners[s] EXCEPT !.pc = "aborted"])
    /\ UNCHANGED <<archVars, taskVars, ownerVars, recVars, clientVars, storeVars,
                   roots, seeded, broker, chan, parked, now, nfiles, advanced>>

\* entry.metadata() fails
ScanMetaErr(s) ==
    /\ HasEntry(s)
    /\ ScanTo(s, [scanners[s] EXCEPT !.errors = @ + 1, !.pos = @ + 1])
    /\ UNCHANGED <<archVars, taskVars, ownerVars, recVars, clientVars, storeVars,
                   roots, seeded, broker, chan, parked, now, nfiles, advanced>>

\* the entry is a directory: NewDir is sent
ScanSubdir(s) ==
    /\ HasEntry(s)
    /\ Tree[scanners[s].path][scanners[s].pos] # 0
    /\ ScanSend(s, [type |-> "NewDir",
                    path |-> Tree[scanners[s].path][scanners[s].pos]],
                [scanners[s] EXCEPT !.dirs = @ + 1, !.pos = @ + 1])
    /\ UNCHANGED <<archVars, taskVars, ownerVars, recVars, clientVars, storeVars,
                   roots, seeded, broker, now, nfiles, advanced>>

\* the entry is a file: add_file succeeds, and when it ingests an Entry that is
\* not in the FileIndex the index grows
ScanFile(s, new) ==
    /\ HasEntry(s)
    /\ Tree[scanners[s].path][scanners[s].pos] = 0
    /\ ScanTo(s, [scanners[s] EXCEPT !.files = @ + 1, !.pos = @ + 1])
    /\ nfiles' = IF config.injest /\ new THEN nfiles + 1 ELSE nfiles
    /\ advanced' = IF config.injest /\ new THEN now ELSE advanced
    /\ UNCHANGED <<archVars, taskVars, ownerVars, recVars, clientVars, storeVars,
                   roots, seeded, broker, chan, parked, now>>

\* the entry is a file: add_file fails
ScanFileErr(s) ==
    /\ HasEntry(s)
    /\ Tree[scanners[s].path][scanners[s].pos] = 0
    /\ ScanTo(s, [scanners[s] EXCEPT !.errors = @ + 1, !.pos = @ + 1])
    /\ UNCHANGED <<archVars, taskVars, ownerVars, recVars, clientVars, storeVars,
                   roots, seeded, broker, chan, parked, now, nfiles, advanced>>

\* the directory is exhausted: Done is sent
ScanDone(s) ==
    /\ Running(s) /\ scanners[s].pc = "iter"
    /\ scanners[s].pos > Len(Tree[scanners[s].path])
    /\ ScanSend(s, [type |-> "Done", files |-> scanners[s].files,
                    dirs |-> scanners[s].dirs, errors |-> scanners[s].errors],
                [scanners[s] EXCEPT !.pc = "end"])
    /\ UNCHANGED <<archVars, taskVars, ownerVars, recVars, clientVars, storeVars,
                   roots, seeded, broker, now, nfiles, advanced>>

InitBroker ==
    /\ InitArchiveVars
    /\ InitIdleRecord
    /\ InitIdleIndex
    /\ config \in BrokerConfigs
    /\ roots \in Injests /\ seeded = 0 /\ broker = Broker_new
    /\ chan = <<>> /\ parked = <<>> /\ scanners = <<>> /\ now = 0
    /\ nfiles \in InitialFiles
    /\ advanced = 0

NextBroker ==
    \/ Seed
    \/ BrokerSpawn
    \/ TimerTick
    \/ BrokerRecv
    \/ \E s \in 1..Len(scanners) : ScanOpen(s)
    \/ \E s \in 1..Len(scanners) : ScanOpenErr(s)
    \/ \E s \in 1..Len(scanners) : ScanEnumErr(s)
    \/ \E s \in 1..Len(scanners) : ScanMetaErr(s)
    \/ \E s \in 1..Len(scanners) : ScanSubdir(s)
    \/ \E s \in 1..Len(scanners) : \E new \in BOOLEAN : ScanFile(s, new)
    \/ \E s \in 1..Len(scanners) : ScanFileErr(s)
    \/ \E s \in 1..Len(scanners) : ScanDone(s)

SpecBroker == InitBroker /\ [][NextBroker]_vars

\* the runs in which no call of the file system fails
NextBrokerNoErr ==
    \/ Seed
    \/ BrokerSpawn
    \/ TimerTick
    \/ BrokerRecv
    \/ \E s \in 1..Len(scanners) : ScanOpen(s)
    \/ \E s \in 1..Len(scanners) : ScanSubdir(s)
    \/ \E s \in 1..Len(scanners) : \E new \in BOOLEAN : ScanFile(s, new)
    \/ \E s \in 1..Len(scanners) : ScanDone(s)

\* one process_dir task is spawned for every directory met, a root given twice
\* being met twice
MaxScanners == 4

\* the executor runs every task that can go on: launch_brokers, the broker,
\* the timer and every process_dir task
FairBroker ==
    /\ WF_vars(Seed)
    /\ WF_vars(BrokerSpawn)
    /\ WF_vars(TimerTick)
    /\ WF_vars(BrokerRecv)
    /\ \A s \in 1..MaxScanners :
          WF_vars(s \in 1..Len(scanners)
                  /\ (ScanOpen(s) \/ ScanSubdir(s) \/ ScanDone(s)
                      \/ \E new \in BOOLEAN : ScanFile(s, new)))

SpecBrokerLive == InitBroker /\ [][NextBrokerNoErr]_vars /\ FairBroker

---------------------------------------------------------------------------
\* Claims on the background write discipline (SpecArchive)

InFlight(t) == t \in 1..Len(tasks) /\ ~Ended(t)
Writing(t) == t \in 1..Len(tasks) /\ tasks[t].pc \in {"write", "close"}

\* C4: when finish has returned, no write task spawned by this Archive is still
\* waiting for a slot or still writing its file
C4_FinishWaitsForTasks ==
    finished => \A t \in 1..Len(tasks) : tasks[t].pc \in {"close", "done", "failed"}

\* C5: whenever task_counts reports while some spawned task has not finished,
\* the total it reports is at least 1
C5_CountsNeverZeroInFlight ==
    (reported.valid /\ \E t \in 1..Len(tasks) : InFlight(t)) => reported.total >= 1

\* C6: at most 4 tasks are between their increment and their decrement of
\* active_tasks at the same time
C6_AtMostFourWriting ==
    Cardinality({t \in 1..Len(tasks) : Writing(t)}) <= MAX_ACTIVE_TASKS

\* C7: once finish has returned (and nothing was flushed since), every
\* task_counts() returns (0, 0)
C7_CountsZeroAfterFinish ==
    (finished /\ reported.valid /\ tc_caller = "user")
        => (reported.a = 0 /\ reported.total = 0)

\* C8: a task whose file creation or write failed has given its active_tasks
\* slot back: once every task has ended, failed ones included, active_tasks is 0
\* (so that the total finish polls can reach 0)
C8_FailedTaskDecrements ==
    ((\E t \in 1..Len(tasks) : tasks[t].pc = "failed")
        /\ \A t \in 1..Len(tasks) : Ended(t))
        => active_tasks = 0

---------------------------------------------------------------------------
\* Claims on the Record (SpecRecord)

\* the j-th pull of a reader that has not sought
Sequential(j) == \A i \in 1..j : pulled[i].sought = 0

\* C1: the pulls of a fresh reader after finish never abort, and each item they
\* return is the item pushed at the same position (v1..vn in push order)
C1_PullsReturnPushed ==
    \A j \in 1..Len(pulled) :
        Sequential(j) =>
            /\ pulled[j].kind \in {"some", "none"}
            /\ pulled[j].kind = "some" =>
                   (j <= Len(pushed) /\ pulled[j].v = pushed[j])

\* C2: an item returned by the pull that follows seek(L.archive_location),
\* L returned by push(v), is v
C2_SeekThenPullReturnsItem ==
    \A j \in 1..Len(pulled) :
        (pulled[j].sought # 0 /\ pulled[j].kind = "some") =>
            pulled[j].v = pushed[pulled[j].sought]

---------------------------------------------------------------------------
\* Claims on the FileStore (SpecStore)

\* C3: for every fingerprint h that is a value in FileIndex, HashIndex[h] holds
\* exactly the Entries whose FileIndex value is h, each exactly once
C3_HashIndexMatchesFileIndex ==
    \A e \in DOMAIN index :
        LET h == index[e]
        IN /\ h \in DOMAIN hindex
           /\ Cardinality({i \in DOMAIN hindex[h] : hindex[h][i] = e}) = 1
           /\ \A i \in DOMAIN hindex[h] :
                  hindex[h][i] \in DOMAIN index /\ index[hindex[h][i]] = h

\* C9: when the read of a fresh FileStore that follows a write has ended, its
\* FileIndex is the FileIndex written and every Entry is in the HashIndex list
\* of its fingerprint
C9_WriteThenReadReproduces ==
    (phase = "rewalk" /\ adds = 0 /\ saved.some /\ finished) =>
        /\ index = saved.v
        /\ \A e \in DOMAIN index :
               /\ index[e] \in DOMAIN hindex
               /\ \E i \in DOMAIN hindex[index[e]] : hindex[index[e]][i] = e

---------------------------------------------------------------------------
\* Claims on the broker (SpecBroker)

\* C10: every process_dir task the broker has dispatched is still at work or
\* has sent its one terminal message, so that active_count is the number of
\* tasks at work plus the Done and Error messages the broker has yet to take
C10_TerminalMessagePerTask ==
    broker.pc = "loop" =>
        broker.active_count =
            Cardinality({s \in 1..Len(scanners) : scanners[s].pc \in {"open", "iter"}})
            + Cardinality({i \in DOMAIN chan : chan[i].type \in {"Done", "Error"}})

\* C11: in a run without I/O errors, under fair scheduling, dir_broker_loop
\* eventually returns (the claim: through its completion exit)
C11_BrokerReturns == <>(broker.pc = "exit")

\* C12: the number of process_dir tasks dispatched and not yet reported,
\* active_count, is at most config.concurrency in every state of the broker
C12_ActiveAtMostConcurrency == broker.active_count <= config.concurrency

\* the cap binds: a directory waits in todo while concurrency tasks are out
C12_Witness ==
    /\ broker.pc = "loop" /\ broker.todo # <<>>
    /\ broker.active_count = config.concurrency

\* the broker takes a Report from the channel
ReportStep ==
    /\ broker.pc = "loop" /\ chan # <<>> /\ Head(chan).type = "Report"
    /\ BrokerRecv

\* C13 as stated: at a Report the stall exit is taken if and only if none of
\* nfiles, file_count and dir_count has advanced for at least timeout
C13_StallIffNoAdvance ==
    [][ReportStep => (broker'.exit = "stall" <=> now - advanced >= config.timeout)]_vars

\* C13, amended: at a Report the stall exit is taken if and only if no counter
\* exceeds the value recorded at the last Report that saw an advance, and that
\* Report (or the start of the loop) is more than timeout old; then no counter
\* has advanced for more than timeout
C13_StallIffNoneSeenSince ==
    [][ReportStep =>
          /\ broker'.exit = "stall" <=>
                 /\ nfiles <= broker.last_nfiles
                 /\ broker.file_count <= broker.last_file_count
                 /\ broker.dir_count <= broker.last_dir_count
                 /\ now - broker.last_change_event > config.timeout
          /\ broker'.exit = "stall" => now - advanced > config.timeout]_vars

\* the stall exit has been taken, and on a Report before it the counters had
\* advanced
C13_Witness ==
    /\ broker.exit = "stall"
    /\ broker.last_change_event > 0

\* C19: in one run of the broker FileStore.write is called at most once, and
\* only with ingest enabled and more entries in the FileIndex than were loaded
\* at start; in check mode it is never called, whichever exit is taken
C19_WriteAtMostOnceWhenGrown ==
    /\ broker.writes <= 1
    /\ broker.writes = 1 =>
           (config.injest /\ nfiles > broker.initial_files /\ broker.pc = "exit")
    /\ ~config.injest => broker.writes = 0

\* the stall exit has written an archive that had grown
C19_Witness ==
    /\ broker.exit = "stall" /\ broker.writes = 1
    /\ broker.initial_files > 0

---------------------------------------------------------------------------
\* Claims on the FileStore, continued (SpecStore)

\* C14: FileStore.read ends on every stored stream: it never stays in the loop
\* of pull waiting for bytes that no segment file will bring
C14_ReadTerminates == phase # "spin"

\* the fingerprint add_file computes for f
Fingerprint(f) == FoldXor(Len(f.content), hash_file(f, Len(f.content)))

\* C15: in missing mode, add_file of a file whose Entry was loaded from the
\* archive prints nothing, and add_file of a file whose Entry is not in
\* FileIndex and whose fingerprint is not in HashIndex prints one line, its path
C15_MissingModeOutput ==
    [][\A f \in Files :
          (phase = "rewalk" /\ config.missing /\ AddFile(f)) =>
              LET entry == Entry_new_from_path_meta(f)
              IN /\ entry \in DOMAIN index => out' = <<>>
                 /\ (entry \notin DOMAIN index /\ Fingerprint(f) \notin DOMAIN hindex)
                        => out' = <<entry.name>>]_vars

\* C16: when a run has ingested FileA and FileB, two files of the same content,
\* into an empty store, the report at its end counts one duplicate group, and
\* in duplicate mode prints the two paths together
C16_ReportCountsNewDuplicates ==
    (/\ phase = "rereport" /\ config.injest /\ saved.v = EmptyMap
     /\ DOMAIN index = {Entry_new_from_path_meta(FileA), Entry_new_from_path_meta(FileB)})
        => /\ summary.some /\ summary.v.ndup = 1
           /\ config.duplicate =>
                  out \in {<<FileA.path, FileB.path>>, <<FileB.path, FileA.path>>}

\* the Entries of the second FileIndex that are, or are not, found in HashIndex
SecondFound == {e \in DOMAIN second : second[e] \in DOMAIN hindex}
SecondNotFound == DOMAIN second \ SecondFound

\* the lines printed are the names of the Entries of E, one line for each
PrintsEach(E) ==
    \E o \in Orders(E) : out = [i \in 1..Len(o) |-> o[i].name]

C18_CheckModeFrame ==
    [][\A f \in Files :
          (~config.injest /\ AddFile(f)) => UNCHANGED <<index, hindex, present>>]_vars

\* a run in check mode has loaded an archive and called add_file on a file that
\* is not in it, which it has reported
C18_Witness ==
    /\ phase = "rewalk" /\ ~config.injest /\ adds > 0
    /\ index # EmptyMap /\ out # <<>> /\ out[1] \notin {e.name : e \in DOMAIN index}

\* C20: prune with an empty PresentSet leaves FileIndex as it was; with a
\* non-empty PresentSet it leaves FileIndex restricted to the Entries of
\* PresentSet, with their fingerprints; HashIndex and PresentSet stay as they were
C20_PruneRestrictsIndex ==
    [][Prune =>
          /\ index' = IF present = {} THEN index
                      ELSE [e \in DOMAIN index \cap present |-> index[e]]
          /\ hindex' = hindex
          /\ present' = present]_vars

\* prune has removed an Entry that was loaded from the archive and kept another
C20_Witness ==
    /\ phase = "repruned" /\ present # {} /\ index # EmptyMap
    /\ \E h \in DOMAIN hindex :
          \E i \in DOMAIN hindex[h] : hindex[h][i] \notin DOMAIN index


---------------------------------------------------------------------------
\* Claims on the sizes and locations of the Record and the Archive (SpecWriter)

\* a step of Push that returned, and the step of Finish
PushStep == pc = "idle" /\ pushed' # pushed
FinishStep == pc = "idle" /\ pc' = "tc_w"

\* the uncompressed buffers Record.flush compresses during the push of a PushStep
FlushedInPush == Record_push(TheRecord, pushed'[Len(pushed')]).r.flushed

\* C21: every uncompressed buffer that Record.flush compresses, inside a push
\* or in finish, has at most RECORD_SIZE bytes, length prefixes included
C21_FlushedAtMostRecordSize ==
    [][/\ PushStep => \A i \in DOMAIN FlushedInPush :
                          Len(FlushedInPush[i]) <= RECORD_SIZE
       /\ FinishStep => Len(rec_write_buffer) <= RECORD_SIZE]_vars

\* the Archive.write calls of a step, in order
WritesOfStep ==
    IF PushStep THEN Record_push(TheRecord, pushed'[Len(pushed')]).r.archive.written
    ELSE IF FinishStep THEN Record_finish(TheRecord).archive.written
    ELSE <<>>

\* C22: every block is appended to a segment buffer that holds at most
\* limit - MAX_COMPRESSED_CHUNK_SIZE bytes, and every segment handed to a write
\* task is shorter than limit bytes
C22_SegmentsBelowLimit ==
    [][/\ \A i \in DOMAIN WritesOfStep :
              WritesOfStep[i].set_offset <= limit - MAX_COMPRESSED_CHUNK_SIZE
       /\ \A t \in 1..Len(tasks') : Len(tasks'[t].v) < limit]_vars

\* a segment that went beyond limit - MAX_COMPRESSED_CHUNK_SIZE with its last
\* block was handed to a write task by the rollover of a write
C22_Witness ==
    /\ pc = "idle"
    /\ \E t \in 1..Len(tasks) :
           Len(tasks[t].v) > limit - MAX_COMPRESSED_CHUNK_SIZE

\* the bytes of segment s after a step: the buffer handed to the write task of
\* that serial, or the write buffer while the segment is still being filled
SegmentAfter(s) ==
    IF \E t \in 1..Len(tasks') : tasks'[t].name = s
    THEN tasks'[CHOOSE t \in 1..Len(tasks') : tasks'[t].name = s].v
    ELSE IF s = write_serial_number' THEN arc_write_buffer' ELSE <<>>

\* the bytes of a segment from offset off + 1 to off + n, as far as they exist
BytesAt(seg, off, n) ==
    IF off + n <= Len(seg) THEN SubSeq(seg, off + 1, off + n) ELSE <<-1>>

\* C24: the location write_location() returns immediately before write(v) is
\* the segment serial and the byte offset at which v is stored, at every fill
\* level, the announced rollover to (write_serial_number + 1, 0) included
C24_WriteLocationIsWhereWriteLands ==
    [][\A i \in DOMAIN WritesOfStep :
           LET w == WritesOfStep[i]
           IN /\ w.predicted.archive_set = w.archive_set
              /\ w.predicted.set_offset = w.set_offset
              /\ BytesAt(SegmentAfter(w.predicted.archive_set),
                         w.predicted.set_offset, Len(w.v)) = w.v]_vars

\* a write has rolled over to a fresh segment and stored its bytes there
C24_Witness ==
    /\ pc = "idle"
    /\ write_serial_number >= 1
    /\ tasks # <<>>
    /\ arc_write_buffer # <<>>

\* the bytes handed to the write task of segment s
Segment(s) ==
    IF \E t \in 1..Len(tasks) : tasks[t].name = s
    THEN tasks[CHOOSE t \in 1..Len(tasks) : tasks[t].name = s].v
    ELSE <<>>

\* the block whose 4-byte length prefix is stored at location L, decompressed:
\* the compressed bytes follow the prefix, in the same segment or, where the
\* segment ends with the prefix, at the start of the next one
StoredBlock(L) ==
    LET seg == Segment(L.archive_set)
        pre == BytesAt(seg, L.set_offset, 4)
        clen == slice_u8_to_usize(pre)
    IN IF pre = <<-1>> THEN [ok |-> FALSE, v |-> <<>>]
       ELSE IF L.set_offset + 4 + clen <= Len(seg)
       THEN decompress(BytesAt(seg, L.set_offset + 4, clen))
       ELSE IF L.set_offset + 4 = Len(seg)
       THEN decompress(BytesAt(Segment(L.archive_set + 1), 0, clen))
       ELSE [ok |-> FALSE, v |-> <<>>]

\* C25: once finish has flushed everything, the RecordLocation push returned for
\* each item names the stored length prefix of a compressed block, and at
\* uncompressed_offset of that block stands the item's own length prefix,
\* followed by the item's bytes as far as the block goes
C25_RecordLocationAccurate ==
    pc = "tc_w" =>
        \A i \in 1..Len(locs) :
            LET b == StoredBlock(locs[i].archive_location)
                o == locs[i].uncompressed_offset
                n == Len(pushed[i])
                k == IF n <= Len(b.v) - o - 4 THEN n ELSE Len(b.v) - o - 4
            IN /\ b.ok
               /\ o + 4 <= Len(b.v)
               /\ SubSeq(b.v, o + 1, o + 4) = usize_to_slice_u8(n)
               /\ SubSeq(b.v, o + 5, o + 4 + k) = SubSeq(pushed[i], 1, k)

\* finish has flushed an item that push located in a later segment, behind
\* other blocks and behind another item of its block
C25_Witness ==
    /\ pc = "tc_w"
    /\ \E i \in 1..Len(locs) :
           /\ locs[i].archive_location.archive_set >= 1
           /\ locs[i].archive_location.set_offset > 0
           /\ locs[i].uncompressed_offset > 0

\* seg from offset off on is a concatenation of blocks, each a 4-byte length
\* prefix with the compressed bytes it announces
RECURSIVE WholeBlocks(_, _)
WholeBlocks(seg, off) ==
    \/ off = Len(seg)
    \/ /\ off + 4 <= Len(seg)
       /\ off + 4 + slice_u8_to_usize(SubSeq(seg, off + 1, off + 4)) <= Len(seg)
       /\ WholeBlocks(seg, off + 4 + slice_u8_to_usize(SubSeq(seg, off + 1, off + 4)))

\* C26: every segment handed to a write task is a concatenation of complete
\* blocks: no rollover falls between the length prefix and the compressed bytes
\* that Record.flush writes
C26_SegmentsHoldWholeBlocks ==
    \A t \in 1..Len(tasks) : WholeBlocks(tasks[t].v, 0)

\* C29: the Archive.flush of a finish that finds the write buffer empty spawns
\* no write task (so that no segment file is created) and leaves
\* write_serial_number, waiting_tasks and the buffer as they were; a Record
\* into which nothing was pushed hands no segment to a write task
C29_FlushOfEmptyBufferIsNoOp ==
    [][/\ (FinishStep /\ Record_flush(TheRecord).archive.write_buffer = <<>>) =>
              /\ tasks' = tasks
              /\ write_serial_number' = write_serial_number
              /\ waiting_tasks' = waiting_tasks
              /\ arc_write_buffer' = <<>>
       /\ pushed' = <<>> => (tasks' = <<>> /\ write_serial_number' = 0)]_vars

\* finish was called on a Record into which nothing was pushed
C29_Witness ==
    /\ pc = "tc_w"
    /\ pushed = <<>>
    /\ tasks = <<>>

---------------------------------------------------------------------------
\* Claims on the reader of a Record (SpecRecord)

\* one item of 3 x RECORD_SIZE + 7 bytes is all that was pushed
OneLargeItem(p) == Len(p) = 1 /\ Len(p[1]) = 3 * RECORD_SIZE + 7

\* C27: the push of one item of 3 x RECORD_SIZE + 7 bytes into a fresh Record
\* flushes exactly 3 times, each time a buffer of exactly RECORD_SIZE bytes, and
\* leaves the tail in the buffer; the first pull after finish returns the item
C27_LargeItemSplitsAndReturns ==
    [][/\ (PushStep /\ pushed = <<>> /\ OneLargeItem(pushed')) =>
              /\ Len(FlushedInPush) = 3
              /\ \A i \in DOMAIN FlushedInPush : Len(FlushedInPush[i]) = RECORD_SIZE
              /\ rec_write_buffer' = SubSeq(pushed'[1], 3 * RECORD_SIZE - 3,
                                            3 * RECORD_SIZE + 7)
       /\ (OneLargeItem(pushed') /\ pulled = <<>> /\ pulled' # <<>>
               /\ pulled'[1].sought = 0) =>
              /\ pulled'[1].kind = "some"
              /\ pulled'[1].v = pushed'[1]]_vars

\* the lengths read after a seek: a block's length prefix, and a single byte
ReadLens == {1, 4}

\* C28: after seek(L), with the segment files written, the next read(n) loads
\* segment L.archive_set and returns the n bytes that start at L.set_offset
C28_ReadAfterSeekStartsAtOffset ==
    (sought # 0 /\ \A t \in 1..Len(tasks) : tasks[t].pc = "done") =>
        LET L == locs[sought].archive_location
            seg == read_file(disk, L.archive_set)
        IN \A n \in ReadLens :
               LET x == Archive_read(TheReader.archive, disk, n)
               IN /\ seg.some
                  /\ x.ar.read_serial_number = L.archive_set
                  /\ x.ret = Some(BytesAt(seg.v, L.set_offset, n))

---------------------------------------------------------------------------
\* Claims on the load of a stream that ends after an Entry (SpecLoad)

\* the step in which the loop of FileStore::read ends
ReadEnds == phase = "load" /\ phase' = "walk"

\* the stored stream ends with an Entry that no fingerprint follows
EndsAfterEntry == Len(pushed) % 2 = 1

\* C30: when the stored stream ends right after an Entry, the read_item that
\* meets it returns an error, not end-of-stream; FileStore.read stops there,
\* inserts nothing for that Entry, and FileIndex and HashIndex hold every pair
\* read before it
C30_LoneEntryIsErrorAndKeepsPairs ==
    [][EndsAfterEntry =>
           /\ phase' \in {"load", "walk"}
           /\ ReadEnds =>
                  /\ Record_read_item(TheReader, disk).kind = "err"
                  /\ index' = index /\ hindex' = hindex
                  /\ index' = saved.v
                  /\ \A e \in DOMAIN saved.v :
                         /\ saved.v[e] \in DOMAIN hindex'
                         /\ Cardinality({i \in DOMAIN hindex'[saved.v[e]] :
                                             hindex'[saved.v[e]][i] = e}) = 1]_vars

\* the read of a stream with pairs and then a lone Entry has ended
C30_Witness ==
    /\ phase = "walk"
    /\ EndsAfterEntry
    /\ Len(pushed) >= 3
    /\ index # EmptyMap

---------------------------------------------------------------------------
\* Claims on the concurrent walk (SpecScan)

\* a serial walk: add_file on the files of one directory after the other; a
\* task that an unwrap has ended leaves the rest of its directory out
RECURSIVE SerialDir(_, _, _)
SerialDir(st, cfg, files) ==
    IF files = <<>> THEN st
    ELSE Bind(FileStore_add_file(st, cfg, Head(files)),
              LAMBDA x : IF x.panic THEN st ELSE SerialDir(x.st, cfg, Tail(files)))

SerialWalk ==
    SerialDir(SerialDir([index |-> saved.v, hindex |-> hindex, present |-> {}],
                        config, scanners[1].dir),
              config, scanners[2].dir)

\* every process_dir task is through with its directory, or was ended
WalkOver == \A s \in DOMAIN scanners : scanners[s].files = <<>> \/ scanners[s].pc = "panic"

ChunksOfClaim(c) ==
    LET n == Len(c)
        k == n \div CHUNK_SIZE
    IN [i \in 1..k |-> seahash(SubSeq(c, (i - 1) * CHUNK_SIZE + 1, i * CHUNK_SIZE))]
           \o <<seahash(SubSeq(c, k * CHUNK_SIZE + 1, n))>>

\* C31: the fingerprint of a regular file of n bytes is folded over
\* floor(n / CHUNK_SIZE) full chunks followed by one tail chunk of
\* n mod CHUNK_SIZE bytes, empty (and still hashed) when n is a positive
\* multiple of CHUNK_SIZE
C31_FingerprintOverFullChunksAndTail ==
    \A s \in DOMAIN scanners :
        scanners[s].pc = "done" =>
            LET f == scanners[s].file
                n == Len(f.content)
            IN /\ scanners[s].ret = ChunksOfClaim(f.content)
               /\ scanners[s].tail = n % CHUNK_SIZE
               /\ index[Entry_new_from_path_meta(f)]
                      = FoldXor(n, ChunksOfClaim(f.content))

\* ---------------------------------------------------------------- C32
\* the NewDir messages sent so far: by launch_brokers for the roots, and by
\* every process_dir task for the subdirectories it met
RECURSIVE DirsSent(_)
DirsSent(n) == IF n = 0 THEN 0 ELSE scanners[n].dirs + DirsSent(n - 1)

Announced == seeded + DirsSent(Len(scanners))

\* C32: when the broker takes its completion exit, no NewDir is unprocessed:
\* the driver has sent every root, no NewDir waits in the channel or in todo,
\* one process_dir task was dispatched for every NewDir sent, and each of
\* them has sent its Done or Error, which the broker has taken
C32_NoNewDirLeftAtCompletion ==
    (broker.pc = "exit" /\ broker.exit = "done") =>
        /\ seeded = Len(roots) /\ ~Parked(Driver)
        /\ \A i \in DOMAIN chan : chan[i].type = "Report"
        /\ broker.todo = <<>>
        /\ Len(scanners) = Announced
        /\ broker.dir_count = Announced
        /\ \A s \in DOMAIN scanners : scanners[s].pc = "end" /\ ~Parked(s)

\* the completion exit after a walk of the whole tree: the task of the root
\* has announced two subdirectories
C32_Witness ==
    /\ broker.pc = "exit" /\ broker.exit = "done"
    /\ Len(scanners) = 3
    /\ \E s \in DOMAIN scanners : scanners[s].dirs = 2

\* ---------------------------------------------------------------- C33
\* C33: Record::push never aborts: in the split loop of an item longer than
\* the limit, limit - len(write_buffer) is never negative and the slices of
\* the item are in range, for every sequence of pushes
C33_PushNeverAborts == [][pc = "idle" => pc' # "panic"]_vars

\* ---------------------------------------------------------------- C34
\* C34: add_file never aborts on its index lookups: when it finds the Entry in
\* FileIndex while present or missing mode is on, the Entry's fingerprint is a
\* key of HashIndex, after any sequence of read and add_file calls
C34_AddFileLookupsNeverAbort == [][adds' # adds => phase' # "panic"]_vars

\* ---------------------------------------------------------------- C35
\* C35: launch_brokers never blocks for ever while seeding: for any number of
\* roots, more than the channel buffers included, every root's NewDir is
\* eventually sent and the broker and the timer are spawned
C35_SeedingEnds == <>(seeded = Len(roots) /\ ~Parked(Driver) /\ broker.pc # "new")
=============================================================================
